---- MODULE Spec2Model ----
(***************************************************************************)
(* Real-Time-Video-Chat backend.                                           *)
(*                                                                         *)
(*  - the signaling broker  (backend/WebSocket/webrtc_signaling.go):       *)
(*    the room table, the Room objects, the peers, their reader and writer *)
(*    goroutines and their outbound channels;                              *)
(*  - the matchmaking coordinator (backend/cmd/main.go): the Redis keys    *)
(*    available_users, user_room:<id>, user:<id>, the HTTP handlers and    *)
(*    the background matching service.                                     *)
(*                                                                         *)
(* Every critical section (a region under s.Mutex or room.Mutex) and every *)
(* single Redis command is one atomic step; goroutines and HTTP handlers   *)
(* interleave between steps.                                               *)
(***************************************************************************)
EXTENDS Integers, Sequences, FiniteSets, TLC

----------------------------------------------------------------------------
(* Bounds of the model *)

\* transport events (a frame read, a failed read, a failed write) of all the
\* connections together: with every kind of frame / with the frames of one scenario
MaxFrames == 3
MaxScenarioFrames == 4
MaxMeetingFrames == 5
\* capacity of a peer's SendChan (make(chan []byte, 100) in the source)
MaxQueue == 2
\* Room objects that can be live at once
MaxObjs == 3
\* HTTP requests, ticks and frames of a run of the coordinator; the requests
\* and ticks that can be in flight together
MaxOps == 4
MaxInFlight == 2
\* HTTP requests and ticks of a run in which they follow one another
MaxSerialOps == 6
\* transport events of the scenario of the failed write (the frames of a peer
\* whose writer has returned are not counted)
MaxWriterFrames == 3

PeerIDs == {"p1", "p2", "p3"}
RoomIDs == {"r1", "r2"}
\* the keys of s.Rooms: the room_id of a frame, "" when the field is absent or empty
RoomKeys == RoomIDs \cup {""}
ObjIds == 1..MaxObjs

\* nil *Room: what s.Rooms[id] yields when the key is absent
NilRoom == 0

----------------------------------------------------------------------------
(* State of the signaling broker *)

VARIABLES
  Rooms,       \* s.Rooms: room identifier -> Room object (NilRoom: no entry)
  RoomObj,     \* the Room objects: [ID, Peers] (Peers: the keys of room.Peers)
  RoomID,      \* peer.RoomID ("" = unassigned)
  SendChan,    \* peer.SendChan: the marshalled messages not yet written
  chanClosed,  \* whether close(peer.SendChan) has run
  pc,          \* position of each peer's reader goroutine (handlePeerMessages)
  stack,       \* locals of the handler the reader goroutine is in
  writer,      \* state of each peer's writer goroutine (handlePeerSend)
  panicked,    \* a goroutine panicked (send on a closed channel): the process is dead
  everJoined,  \* history: a peer has been inserted into this Room object since it was created
  nFrames,     \* history: transport events so far
  forwarded,   \* history: by peer, the forwards passed to sendToPeer for it, in order
  written,     \* history: by peer, the forwards written to its transport, in order
  told,        \* history: by peer, the is_initiator of the last room_joined sent to it
  stayed,      \* history: by peer, the members its room held when it joined and holds since
  unnotified,  \* history: by peer, the members its room held when it joined that its
               \* join did not pass a peer_joined to
  leftRoom     \* history: by peer, the rooms whose room_left was passed to sendToPeer for
               \* it and that it has not joined since

logVars == <<forwarded, written, told, stayed, unnotified, leftRoom>>
brokerVars == <<Rooms, RoomObj, RoomID, SendChan, chanClosed, pc, stack, writer,
                panicked, everJoined, nFrames, logVars>>

----------------------------------------------------------------------------
(* State of the matchmaking coordinator: the Redis keys and the operations *)
(* in flight                                                               *)

VARIABLES
  available_users,  \* the Redis set available_users
  user_room,        \* the Redis keys user_room:<id> (NoRoom: no such key)
  user,             \* the Redis keys user:<id> (NoUser: no such key)
  users,            \* the Redis set users
  uuids,            \* history: the room identifiers uuid.NewString has produced
  createUser,       \* POST /api/users in flight, by user id
  matchRandom,      \* GET /api/match/random in flight, by requester
  matchSimilar,     \* GET /api/match/similar in flight, by requester
  sweep,            \* the goroutine of startMatchingService
  marking,          \* the goroutines of markUserAvailable, by peer and position
  nOps              \* history: HTTP requests and ticks so far

registryVars == <<available_users, user_room, user, users, uuids>>
coordVars == <<registryVars, createUser, matchRandom, matchSimilar, sweep, nOps>>

----------------------------------------------------------------------------
(* JSON values carried in the data field.  A number n is written as its    *)
(* offset from 2^53: JNumber(k) is the JSON number 2^53 + k.               *)

JNull == [k |-> "null"]
JString(s) == [k |-> "string", s |-> s]
JNumber(off) == [k |-> "number", off |-> off]
JObject(fields) == [k |-> "object", fields |-> fields]

\* strconv.ParseFloat(…, 64) on an integer in [2^53, 2^54): the float64 values
\* there are the even offsets; a tie goes to the even mantissa 2^52 + off/2.
RoundFloat64(off) ==
  IF off % 2 = 0 THEN off
  ELSE IF (off - 1) % 4 = 0 THEN off - 1 ELSE off + 1

\* json.Unmarshal into Data interface{}: a number becomes a float64
DecodeValue(v) ==
  IF v.k = "number" THEN [k |-> "float64", off |-> RoundFloat64(v.off)] ELSE v

\* json.Marshal of Data interface{}: a float64 is written as the shortest
\* decimal that parses back to it; nil is left out (omitempty)
EncodeValue(g) ==
  IF g.k = "float64" THEN JNumber(g.off) ELSE g

ForwardTypes == {"offer", "answer", "ice_candidate"}

\* the data payloads the clients send
Payloads == {JString("sdp"), JNumber(1)}

\* the text frames a client can send
Frames ==
  {[json |-> "malformed"]}
  \cup {[json |-> "ok", type |-> "join_room", room_id |-> r, data |-> JNull] : r \in RoomIDs}
  \cup {[json |-> "ok", type |-> "leave_room", room_id |-> "", data |-> JNull]}
  \cup {[json |-> "ok", type |-> t, room_id |-> "", data |-> d] : t \in ForwardTypes, d \in Payloads}
  \cup {[json |-> "ok", type |-> "bogus", room_id |-> "", data |-> JNull]}

\* json.Unmarshal(message, &signalingMsg)
Unmarshal(frame) ==
  IF frame.json = "malformed"
  THEN [err |-> TRUE]
  ELSE [err |-> FALSE,
        msg |-> [Type |-> frame.type, RoomID |-> frame.room_id,
                 Data |-> DecodeValue(frame.data)]]

\* json.Marshal(msg) of a SignalingMessage: what is put on a SendChan
Marshal(type, room_id, peer_id, data, error) ==
  [type |-> type, room_id |-> room_id, peer_id |-> peer_id,
   data |-> EncodeValue(data), error |-> error]

RoomJoinedMsg(p, rid, init) ==
  Marshal("room_joined", rid, "",
          JObject([peer_id |-> p, room_id |-> rid, is_initiator |-> init]), "")
RoomLeftMsg(p, rid) ==
  Marshal("room_left", rid, "", JObject([peer_id |-> p, room_id |-> rid]), "")
PeerNoticeMsg(type, p) ==
  Marshal(type, "", "", JObject([peer_id |-> p]), "")
ForwardMsg(type, p, data) ==
  Marshal(type, "", p, data, "")
ErrorMsg(text) ==
  Marshal("error", "", "", JNull, text)

----------------------------------------------------------------------------
(* Helpers of the broker *)

\* the locals of a handler: message (the bytes read), msg (signalingMsg), room,
\* isInitiator, the text of a pending sendError, whether handlePeerDisconnect is
\* the caller; found is history: the other peers the room held when the peer
\* was inserted
NoFrame == [message |-> [json |-> "none"],
            msg |-> [Type |-> "", RoomID |-> "", Data |-> JNull],
            room |-> NilRoom, isInitiator |-> FALSE, errorMsg |-> "",
            disconnecting |-> FALSE, found |-> {}]

\* select { case peer.SendChan <- messageBytes: default: } on an open channel
\* (Enqueue_AtHead: a queue that takes the new message in front)
Enqueue_AtHead(ch, m) ==
  IF Len(ch) < MaxQueue THEN <<m>> \o ch ELSE ch
Enqueue(ch, m) ==
  IF Len(ch) < MaxQueue THEN Append(ch, m) ELSE ch

\* SendChan after sendToPeer(q, m) for every q in targets
\* (Deliver_DropOldest: a full queue gives up its head for the new message)
Deliver_DropOldest(targets, m) ==
  [q \in PeerIDs |->
     IF q \notin targets THEN SendChan[q]
     ELSE IF Len(SendChan[q]) < MaxQueue THEN Append(SendChan[q], m)
     ELSE Append(Tail(SendChan[q]), m)]
Deliver(targets, m) ==
  [q \in PeerIDs |-> IF q \in targets THEN Enqueue(SendChan[q], m) ELSE SendChan[q]]

\* a send on a closed channel panics, also inside a select with a default
SendPanics(targets) == \E q \in targets : chanClosed[q]

\* the Room objects something still points to
Referenced ==
  {Rooms[r] : r \in RoomKeys} \cup {stack[p].room : p \in PeerIDs}

\* &Room{...}: the object a new room gets (NilRoom: the model has none left)
FreshObj ==
  IF ObjIds \subseteq Referenced THEN NilRoom
  ELSE CHOOSE o \in ObjIds \ Referenced : \A o2 \in ObjIds \ Referenced : o <= o2

\* mutation of RoomIsFull: an off-by-one capacity test
RoomIsFull_OffByOne(peerCount) == peerCount > 2

\* if peerCount >= 2
RoomIsFull(peerCount) == peerCount >= 2

\* mutation of IsInitiator: the second peer of a room is an initiator too
IsInitiator_UpToOne(peerCount) == peerCount <= 1

\* isInitiator := peerCount == 0
IsInitiator(peerCount) == peerCount = 0

\* the panic ends the process: nothing else moves (nFrames is the caller's)
Panic ==
  /\ panicked' = TRUE
  /\ UNCHANGED <<Rooms, RoomObj, RoomID, SendChan, chanClosed, pc, stack, writer,
                 everJoined, marking, coordVars>>

\* sendToPeer to every peer of targets, then go to position next with locals fr
SendThen(p, targets, m, next, fr) ==
  IF SendPanics(targets)
  THEN Panic
  ELSE /\ SendChan' = Deliver(targets, m)
       /\ pc' = [pc EXCEPT ![p] = next]
       /\ stack' = [stack EXCEPT ![p] = fr]
       /\ UNCHANGED <<Rooms, RoomObj, RoomID, chanClosed, writer, panicked,
                      everJoined, marking, coordVars>>

\* where a handler returns to: the read loop, or the rest of handlePeerDisconnect
ReturnTo(p) == IF stack[p].disconnecting THEN "disc_close" ELSE "read"
ReturnFrame(p) == [NoFrame EXCEPT !.disconnecting = stack[p].disconnecting]

----------------------------------------------------------------------------
(* The handlers of the broker.  A handler that starts with a critical      *)
(* section takes it in the step that reads the frame; every later critical *)
(* section and every send is a step of its own.                            *)

\* mutation of sendError: the error goes to every peer
sendError_Broadcast(p, text) ==
  SendThen(p, PeerIDs, ErrorMsg(text), ReturnTo(p), ReturnFrame(p))

\* sendError(peer, text) followed by the handler's return
sendError(p, text) ==
  SendThen(p, {p}, ErrorMsg(text), ReturnTo(p), ReturnFrame(p))

\* handleJoinRoom, lines 192-234: the section under s.Mutex
handleJoinRoom(p, m, message) ==
  LET exists == Rooms[m.RoomID] # NilRoom
      o == IF exists THEN Rooms[m.RoomID] ELSE FreshObj
      peers == IF exists THEN RoomObj[o].Peers ELSE {}
      peerCount == Cardinality(peers)
  IN
  /\ o # NilRoom
  /\ Rooms' = [Rooms EXCEPT ![m.RoomID] = o]
  /\ IF RoomIsFull(peerCount)
     THEN /\ RoomObj' = [RoomObj EXCEPT ![o] = [ID |-> m.RoomID, Peers |-> peers]]
          /\ everJoined' = [everJoined EXCEPT ![o] = exists /\ @]
          /\ pc' = [pc EXCEPT ![p] = "send_error"]
          /\ stack' = [stack EXCEPT ![p] = [NoFrame EXCEPT !.message = message, !.msg = m,
                                                           !.errorMsg = "Room is full"]]
          /\ UNCHANGED RoomID
     ELSE /\ RoomObj' = [RoomObj EXCEPT ![o] = [ID |-> m.RoomID, Peers |-> peers \cup {p}]]
          /\ everJoined' = [everJoined EXCEPT ![o] = TRUE]
          /\ RoomID' = [RoomID EXCEPT ![p] = m.RoomID]
          /\ pc' = [pc EXCEPT ![p] = "join_confirm"]
          /\ stack' = [stack EXCEPT ![p] = [NoFrame EXCEPT !.message = message, !.msg = m,
                                              !.room = o, !.found = peers \ {p},
                                              !.isInitiator = IsInitiator(peerCount)]]
  /\ UNCHANGED <<SendChan, chanClosed, writer, panicked, marking, coordVars>>

\* handleJoinRoom, lines 236-246: the confirmation to the joining peer
JoinConfirm(p) ==
  /\ ~panicked /\ pc[p] = "join_confirm"
  /\ SendThen(p, {p},
              RoomJoinedMsg(p, stack[p].msg.RoomID, stack[p].isInitiator),
              "join_notify", stack[p])
  /\ told' = [told EXCEPT ![p] = IF stack[p].isInitiator THEN "true" ELSE "false"]
  /\ UNCHANGED <<nFrames, forwarded, written, stayed, unnotified, leftRoom>>

\* mutation of notifyPeersInRoom: the notice goes to nobody
notifyPeersInRoom_Nobody(o, excludePeerID) == {}

\* notifyPeersInRoom(room, excludePeerID, msgType, data): the peers it sends to
notifyPeersInRoom(o, excludePeerID) == RoomObj[o].Peers \ {excludePeerID}

\* handleJoinRoom, lines 248-256: peer_joined to the other peers of the room
JoinNotify(p) ==
  /\ ~panicked /\ pc[p] = "join_notify"
  /\ SendThen(p, notifyPeersInRoom(stack[p].room, p), PeerNoticeMsg("peer_joined", p),
              "read", NoFrame)
  /\ unnotified' = [unnotified EXCEPT
                      ![p] = stack[p].found \ notifyPeersInRoom(stack[p].room, p)]
  /\ UNCHANGED <<nFrames, forwarded, written, told, stayed, leftRoom>>

\* handleLeaveRoom, lines 266-279: the RoomID test and the lookup under s.Mutex.RLock
handleLeaveRoom(p, disc) ==
  IF RoomID[p] = ""
  THEN sendError(p, "Not in a room")
  ELSE /\ IF Rooms[RoomID[p]] = NilRoom
          THEN /\ pc' = [pc EXCEPT ![p] = "send_error"]
               /\ stack' = [stack EXCEPT ![p] = [NoFrame EXCEPT !.errorMsg = "Room not found",
                                                                !.disconnecting = disc]]
          ELSE /\ pc' = [pc EXCEPT ![p] = "leave_delete"]
               /\ stack' = [stack EXCEPT ![p] = [NoFrame EXCEPT !.room = Rooms[RoomID[p]],
                                                                !.disconnecting = disc]]
       /\ UNCHANGED <<Rooms, RoomObj, RoomID, SendChan, chanClosed, writer, panicked,
                      everJoined, marking, coordVars>>

\* mutation of LeaveDelete: the peer stays in room.Peers
LeaveDelete_KeepsPeer(p) ==
  /\ ~panicked /\ pc[p] = "leave_delete"
  /\ RoomID' = [RoomID EXCEPT ![p] = ""]
  /\ pc' = [pc EXCEPT ![p] = "leave_confirm"]
  /\ UNCHANGED <<Rooms, RoomObj, SendChan, chanClosed, stack, writer, panicked, everJoined,
                 nFrames, marking, coordVars, logVars>>

\* handleLeaveRoom, lines 284-288: the section under room.Mutex
LeaveDelete(p) ==
  /\ ~panicked /\ pc[p] = "leave_delete"
  /\ RoomObj' = [RoomObj EXCEPT ![stack[p].room].Peers = @ \ {p}]
  /\ RoomID' = [RoomID EXCEPT ![p] = ""]
  /\ pc' = [pc EXCEPT ![p] = "leave_confirm"]
  /\ stayed' = [x \in PeerIDs |->
                  IF x = p THEN {}
                  ELSE IF x \in RoomObj[stack[p].room].Peers THEN stayed[x] \ {p}
                  ELSE stayed[x]]
  /\ unnotified' = [unnotified EXCEPT ![p] = {}]
  /\ UNCHANGED <<Rooms, SendChan, chanClosed, stack, writer, panicked, everJoined, nFrames,
                 marking, coordVars, forwarded, written, told, leftRoom>>

\* handleLeaveRoom, lines 290-299: room_left to the leaving peer
LeaveConfirm(p) ==
  /\ ~panicked /\ pc[p] = "leave_confirm"
  /\ SendThen(p, {p}, RoomLeftMsg(p, RoomObj[stack[p].room].ID), "leave_notify", stack[p])
  /\ leftRoom' = [leftRoom EXCEPT ![p] = @ \cup {RoomObj[stack[p].room].ID}]
  /\ UNCHANGED <<nFrames, forwarded, written, told, stayed, unnotified>>

\* handleLeaveRoom, lines 301-304: peer_left to the peers still in the room
LeaveNotify(p) ==
  /\ ~panicked /\ pc[p] = "leave_notify"
  /\ SendThen(p, notifyPeersInRoom(stack[p].room, p), PeerNoticeMsg("peer_left", p),
              "leave_cleanup", stack[p])
  /\ UNCHANGED <<nFrames, logVars>>

\* go s.markUserAvailable(peer.ID), line 314: one more goroutine at its start
Spawn(p) == [marking EXCEPT ![p].get = @ + 1]

\* mutation of LeaveCleanup: the table entry of an empty room stays
LeaveCleanup_KeepsRoom(p) ==
  /\ ~panicked /\ pc[p] = "leave_cleanup"
  /\ pc' = [pc EXCEPT ![p] = ReturnTo(p)]
  /\ stack' = [stack EXCEPT ![p] = ReturnFrame(p)]
  /\ marking' = Spawn(p)
  /\ UNCHANGED <<Rooms, RoomObj, RoomID, SendChan, chanClosed, writer, panicked,
                 everJoined, nFrames, coordVars, logVars>>

\* handleLeaveRoom, line 307: len(room.Peers) == 0, read without a lock; when
\* the room is not empty the handler goes on to line 314 and returns
LeaveCleanup(p) ==
  /\ ~panicked /\ pc[p] = "leave_cleanup"
  /\ IF Cardinality(RoomObj[stack[p].room].Peers) = 0
     THEN /\ pc' = [pc EXCEPT ![p] = "leave_remove"]
          /\ UNCHANGED <<stack, marking>>
     ELSE /\ pc' = [pc EXCEPT ![p] = ReturnTo(p)]
          /\ stack' = [stack EXCEPT ![p] = ReturnFrame(p)]
          /\ marking' = Spawn(p)
  /\ UNCHANGED <<Rooms, RoomObj, RoomID, SendChan, chanClosed, writer, panicked,
                 everJoined, nFrames, coordVars, logVars>>

\* handleLeaveRoom, lines 308-310: delete(s.Rooms, room.ID) under s.Mutex
LeaveRemove(p) ==
  /\ ~panicked /\ pc[p] = "leave_remove"
  /\ Rooms' = [Rooms EXCEPT ![RoomObj[stack[p].room].ID] = NilRoom]
  /\ pc' = [pc EXCEPT ![p] = ReturnTo(p)]
  /\ stack' = [stack EXCEPT ![p] = ReturnFrame(p)]
  /\ marking' = Spawn(p)
  /\ UNCHANGED <<RoomObj, RoomID, SendChan, chanClosed, writer, panicked, everJoined,
                 nFrames, coordVars, logVars>>

\* handleOffer / handleAnswer / handleIceCandidate up to the lookup: the
\* RoomID test and s.Rooms[peer.RoomID] under s.Mutex.RLock
Forward(p, m, message) ==
  IF RoomID[p] = ""
  THEN sendError(p, "Not in a room")
  ELSE /\ IF Rooms[RoomID[p]] = NilRoom
          THEN /\ pc' = [pc EXCEPT ![p] = "send_error"]
               /\ stack' = [stack EXCEPT ![p] = [NoFrame EXCEPT !.errorMsg = "Room not found"]]
          ELSE /\ pc' = [pc EXCEPT ![p] = "forward"]
               /\ stack' = [stack EXCEPT ![p] = [NoFrame EXCEPT !.message = message,
                                                                !.msg = m,
                                                                !.room = Rooms[RoomID[p]]]]
       /\ UNCHANGED <<Rooms, RoomObj, RoomID, SendChan, chanClosed, writer, panicked,
                      everJoined, marking, coordVars>>

handleOffer(p, m, message) == Forward(p, m, message)
handleAnswer(p, m, message) == Forward(p, m, message)
handleIceCandidate(p, m, message) == Forward(p, m, message)

\* the peers a forward is sent to: for peerID, otherPeer := range room.Peers
\* { if peerID != peer.ID {...} }
ForwardTargets(p, o) == RoomObj[o].Peers \ {p}

\* the message a forward sends: Type, PeerID: peer.ID, Data: msg.Data
ForwardOf(p, m) == ForwardMsg(m.Type, p, m.Data)

\* the loop of handleOffer / handleAnswer / handleIceCandidate under room.Mutex.RLock
ForwardSend(p) ==
  /\ ~panicked /\ pc[p] = "forward"
  /\ SendThen(p, ForwardTargets(p, stack[p].room), ForwardOf(p, stack[p].msg),
              "read", NoFrame)
  /\ forwarded' = [q \in PeerIDs |->
                     IF q \in ForwardTargets(p, stack[p].room)
                     THEN Append(forwarded[q], ForwardOf(p, stack[p].msg))
                     ELSE forwarded[q]]
  /\ UNCHANGED <<nFrames, written, told, stayed, unnotified, leftRoom>>

\* the sendError a handler makes after it released s.Mutex, then its return
SendPendingError(p) ==
  /\ ~panicked /\ pc[p] = "send_error"
  /\ sendError(p, stack[p].errorMsg)
  /\ UNCHANGED <<nFrames, logVars>>

\* handleSignalingMessage: the switch on msg.Type
handleSignalingMessage(p, m, message) ==
  CASE m.Type = "join_room" -> handleJoinRoom(p, m, message)
    [] m.Type = "leave_room" -> handleLeaveRoom(p, FALSE)
    [] m.Type = "offer" -> handleOffer(p, m, message)
    [] m.Type = "answer" -> handleAnswer(p, m, message)
    [] m.Type = "ice_candidate" -> handleIceCandidate(p, m, message)
    [] OTHER -> sendError(p, "Unknown message type")

\* handlePeerMessages: one round of the read loop with a frame that was read
\* (the count of transport events stops at the sum of the scenarios' bounds)
handlePeerMessages(p, frame) ==
  /\ ~panicked /\ pc[p] = "read"
  /\ nFrames' = IF nFrames < MaxFrames + MaxScenarioFrames THEN nFrames + 1 ELSE nFrames
  /\ IF Unmarshal(frame).err
     THEN sendError(p, "Invalid message format")
     ELSE handleSignalingMessage(p, Unmarshal(frame).msg, frame)
  /\ IF pc'[p] = "join_confirm"
     THEN /\ stayed' = [stayed EXCEPT ![p] = stack'[p].found]
          /\ leftRoom' = [leftRoom EXCEPT ![p] = @ \ {RoomID'[p]}]
     ELSE UNCHANGED <<stayed, leftRoom>>
  /\ UNCHANGED <<forwarded, written, told, unnotified>>

\* handlePeerMessages: peer.Conn.Read fails (timeout, close, protocol error); the
\* deferred handlePeerDisconnect starts: lines 501-503
ReadFails(p) ==
  /\ ~panicked /\ pc[p] = "read"
  /\ nFrames' = nFrames + 1
  /\ IF RoomID[p] # ""
     THEN handleLeaveRoom(p, TRUE)
     ELSE /\ pc' = [pc EXCEPT ![p] = "disc_close"]
          /\ UNCHANGED <<Rooms, RoomObj, RoomID, SendChan, chanClosed, stack, writer,
                         panicked, everJoined, marking, coordVars>>
  /\ UNCHANGED logVars

\* handlePeerDisconnect, lines 505-509: close(peer.SendChan), peer.Conn.Close
handlePeerDisconnect(p) ==
  /\ ~panicked /\ pc[p] = "disc_close"
  /\ chanClosed' = [chanClosed EXCEPT ![p] = TRUE]
  /\ pc' = [pc EXCEPT ![p] = "done"]
  /\ stack' = [stack EXCEPT ![p] = NoFrame]
  /\ UNCHANGED <<Rooms, RoomObj, RoomID, SendChan, writer, panicked, everJoined, nFrames,
                 marking, coordVars, logVars>>

\* generatePeerID: the identifiers are handed out in the order p1, p2, p3
NextPeerID ==
  IF pc["p1"] = "none" THEN "p1" ELSE IF pc["p2"] = "none" THEN "p2" ELSE "p3"

\* HandleWebRTCConnection: a connection is accepted, the peer and its two
\* goroutines are created
HandleWebRTCConnection(p) ==
  /\ ~panicked /\ pc[p] = "none" /\ p = NextPeerID
  /\ pc' = [pc EXCEPT ![p] = "read"]
  /\ writer' = [writer EXCEPT ![p] = "running"]
  /\ UNCHANGED <<Rooms, RoomObj, RoomID, SendChan, chanClosed, stack, panicked,
                 everJoined, nFrames, marking, coordVars, logVars>>

\* handlePeerSend: one message is taken from the channel and written
handlePeerSend(p) ==
  /\ ~panicked /\ writer[p] = "running"
  /\ SendChan[p] # <<>>
  /\ SendChan' = [SendChan EXCEPT ![p] = Tail(@)]
  /\ IF pc[p] = "done"
     THEN /\ writer' = [writer EXCEPT ![p] = "stopped"]   \* the connection is closed
          /\ UNCHANGED written
     ELSE /\ UNCHANGED writer
          /\ written' = IF Head(SendChan[p]).type \in ForwardTypes
                        THEN [written EXCEPT ![p] = Append(@, Head(SendChan[p]))]
                        ELSE written
  /\ UNCHANGED <<Rooms, RoomObj, RoomID, chanClosed, pc, stack, panicked, everJoined,
                 nFrames, marking, coordVars, forwarded, told, stayed, unnotified,
                 leftRoom>>

\* mutation of WriteFails: the writer closes the channel before it returns
WriteFails_ClosesChannel(p) ==
  /\ ~panicked /\ writer[p] = "running" /\ pc[p] # "done"
  /\ SendChan[p] # <<>>
  /\ SendChan' = [SendChan EXCEPT ![p] = Tail(@)]
  /\ writer' = [writer EXCEPT ![p] = "stopped"]
  /\ chanClosed' = [chanClosed EXCEPT ![p] = TRUE]
  /\ nFrames' = nFrames + 1
  /\ UNCHANGED <<Rooms, RoomObj, RoomID, pc, stack, panicked, everJoined,
                 marking, coordVars, logVars>>

\* handlePeerSend: peer.Conn.Write fails on an open connection; the goroutine returns
WriteFails(p) ==
  /\ ~panicked /\ writer[p] = "running" /\ pc[p] # "done"
  /\ SendChan[p] # <<>>
  /\ SendChan' = [SendChan EXCEPT ![p] = Tail(@)]
  /\ writer' = [writer EXCEPT ![p] = "stopped"]
  /\ nFrames' = nFrames + 1
  /\ UNCHANGED <<Rooms, RoomObj, RoomID, chanClosed, pc, stack, panicked, everJoined,
                 marking, coordVars, logVars>>

\* handlePeerSend: the range loop ends on the closed and drained channel
WriterExits(p) ==
  /\ ~panicked /\ writer[p] = "running"
  /\ SendChan[p] = <<>> /\ chanClosed[p]
  /\ writer' = [writer EXCEPT ![p] = "exited"]
  /\ UNCHANGED <<Rooms, RoomObj, RoomID, SendChan, chanClosed, pc, stack, panicked,
                 everJoined, nFrames, marking, coordVars, logVars>>

----------------------------------------------------------------------------
(* The matchmaking coordinator: values and pure functions *)

\* the user ids the HTTP clients use; the third one is the id that
\* markUserAvailable derives from the peer id of the first connection
UserIDs == {"u1", "u2", "user_p1"}

\* markUserAvailable, lines 324-326: the peer id peer_xxx becomes user_xxx
UserOfPeer(p) ==
  CASE p = "p1" -> "user_p1"
    [] p = "p2" -> "user_p2"
    [] OTHER -> "user_p3"

\* every id a Redis key can carry
RegistryIDs == UserIDs \cup {UserOfPeer(p) : p \in PeerIDs}

\* Get user_room:<id> answers redis.Nil or "": no room
NoRoom == 0

\* Get user:<id> answers redis.Nil
NoUser == [ID |-> ""]

\* the strings the profiles are made of, and strings.ToLower(strings.TrimSpace(_))
Normalize(str) ==
  CASE str = " Chess" -> "chess"
    [] str = "Jazz " -> "jazz"
    [] OTHER -> str

\* the JSON bodies of POST /api/users: one for u1 and for u2, for user_p1 one
\* without tags and one with an interest
Bodies ==
  { [ID |-> "u1", Language |-> "en", CefrLevel |-> "B2", Age |-> 20, Gender |-> "",
     Interests |-> <<" Chess", "Jazz ">>, Topics |-> <<>>],
    [ID |-> "u2", Language |-> "en", CefrLevel |-> "", Age |-> 30, Gender |-> "",
     Interests |-> <<"chess">>, Topics |-> <<"jazz">>],
    [ID |-> "user_p1", Language |-> "", CefrLevel |-> "", Age |-> 0, Gender |-> "",
     Interests |-> <<>>, Topics |-> <<>>],
    [ID |-> "user_p1", Language |-> "", CefrLevel |-> "", Age |-> 0, Gender |-> "",
     Interests |-> <<"chess">>, Topics |-> <<>>] }

\* ageBucket
ageBucket(age) ==
  IF age < 18 THEN "u18"
  ELSE IF age <= 25 THEN "18-25"
  ELSE IF age <= 35 THEN "26-35"
  ELSE IF age <= 45 THEN "36-45"
  ELSE IF age <= 55 THEN "46-55"
  ELSE "55+"

\* userTags: the set of prefixed tags of a profile
userTags(u) ==
  (IF u.Language # "" THEN {<<"lang", u.Language>>} ELSE {})
  \cup (IF u.CefrLevel # "" THEN {<<"cefr", u.CefrLevel>>} ELSE {})
  \cup (IF u.Gender # "" THEN {<<"gender", u.Gender>>} ELSE {})
  \cup {<<"interest", Normalize(u.Interests[i])>> : i \in 1..Len(u.Interests)}
  \cup {<<"topic", Normalize(u.Topics[i])>> : i \in 1..Len(u.Topics)}
  \cup (IF u.Age > 0 THEN {<<"age", ageBucket(u.Age)>>} ELSE {})

\* intersectionScore
intersectionScore(a, b) == Cardinality(a \cap b)

\* SMembers: the members of a set in any order
Orders(S) ==
  {s \in [1..Cardinality(S) -> S] : \A i, j \in 1..Cardinality(S) : s[i] = s[j] => i = j}

\* SRem key m1 m2 ...: the set afterwards, and the count it answers
SRem(S, ms) == S \ ms
Removed(S, ms) == Cardinality(S \cap ms)

\* for _, c := range candidates { if c != requesterID { matched = c; break } }
FirstOther(candidates, requesterID) ==
  LET others == {i \in 1..Len(candidates) : candidates[i] # requesterID}
  IN IF others = {} THEN ""
     ELSE candidates[CHOOSE i \in others : \A j \in others : i <= j]

\* MatchResponse and the HTTP status it is sent with (NotFound_NoMatch: the
\* answer of a request that found nobody, in the place of the 404)
MatchResponse(matched, userID, roomID, reason) ==
  [Status |-> 200, Matched |-> matched, UserID |-> userID, RoomID |-> roomID,
   Reason |-> reason]
NotFound_NoMatch == MatchResponse(FALSE, "", NoRoom, "no similar users available")
NotFound == [Status |-> 404, Matched |-> FALSE, UserID |-> "", RoomID |-> NoRoom,
             Reason |-> "user not found"]
NoResponse == [Status |-> 0, Matched |-> FALSE, UserID |-> "", RoomID |-> NoRoom,
               Reason |-> ""]

----------------------------------------------------------------------------
(* The HTTP handlers of the coordinator.  A handler runs one Redis command *)
(* per step; the first step of a request counts it in nOps.                *)

\* POST /api/users, lines 96-112: the body is decoded and Set under user:<id>
\* (getUser reads back the fields that were written)
CreateUser(body) ==
  /\ createUser[body.ID] = "idle"
  /\ user' = [user EXCEPT ![body.ID] = body]
  /\ createUser' = [createUser EXCEPT ![body.ID] = "sadd_users"]
  /\ nOps' = nOps + 1
  /\ UNCHANGED <<available_users, user_room, users, uuids, matchRandom, matchSimilar,
                 sweep, marking, brokerVars>>

\* POST /api/users, line 114: SAdd users
CreateUserTrack(u) ==
  /\ createUser[u] = "sadd_users"
  /\ users' = users \cup {u}
  /\ createUser' = [createUser EXCEPT ![u] = "sadd_available"]
  /\ UNCHANGED <<available_users, user_room, user, uuids, matchRandom, matchSimilar,
                 sweep, marking, nOps, brokerVars>>

\* POST /api/users, lines 116-119: SAdd available_users, then the response
CreateUserAvailable(u) ==
  /\ createUser[u] = "sadd_available"
  /\ available_users' = available_users \cup {u}
  /\ createUser' = [createUser EXCEPT ![u] = "idle"]
  /\ UNCHANGED <<user_room, user, users, uuids, matchRandom, matchSimilar,
                 sweep, marking, nOps, brokerVars>>

\* the handler of POST /api/users/{id}/availability, lines 132-136
Availability(id, available) ==
  available_users' = IF available THEN available_users \cup {id}
                     ELSE SRem(available_users, {id})

\* POST /api/users/{id}/availability sent by an HTTP client
SetAvailability(id, available) ==
  /\ Availability(id, available)
  /\ nOps' = nOps + 1
  /\ UNCHANGED <<user_room, user, users, uuids, createUser, matchRandom, matchSimilar,
                 sweep, marking, brokerVars>>

\* DELETE /api/users/{id}/room: Del user_room:<id>
ClearRoom(id) ==
  /\ user_room' = [user_room EXCEPT ![id] = NoRoom]
  /\ nOps' = nOps + 1
  /\ UNCHANGED <<available_users, user, users, uuids, createUser, matchRandom,
                 matchSimilar, sweep, marking, brokerVars>>

\* a request that is not running; removed is history: the ids its SRem removed
Idle == [pc |-> "idle", candidates |-> <<>>, i |-> 0, reqTags |-> {}, matched |-> "",
         score |-> 0, room |-> NoRoom, resp |-> NoResponse, removed |-> {}]

\* respondJSON / http.Error: the response is written, the handler returns next
Respond(req, resp) == [Idle EXCEPT !.pc = "respond", !.matched = req.matched, !.resp = resp]

\* "room_" + uuid.NewString(): an identifier no earlier call has returned
NewRoom == uuids + 1

\* mutation of ExistingRoomResponse: the room of the answer is a new one
ExistingRoomResponse_NewRoom(existingRoom) == MatchResponse(TRUE, "", NewRoom, "")

\* GET /api/match/random, line 201: the answer for an assigned requester
ExistingRoomResponse(existingRoom) == MatchResponse(TRUE, "", existingRoom, "")

\* GET /api/match/random, lines 198-203: Get user_room:<requester>
MatchRandom(r) ==
  /\ matchRandom[r].pc = "idle"
  /\ nOps' = nOps + 1
  /\ matchRandom' = [matchRandom EXCEPT ![r] =
       IF user_room[r] # NoRoom
       THEN Respond(Idle, ExistingRoomResponse(user_room[r]))
       ELSE [Idle EXCEPT !.pc = "smembers"]]
  /\ UNCHANGED <<registryVars, createUser, matchSimilar, sweep, marking, brokerVars>>

\* GET /api/match/random, lines 206-221: SMembers available_users and the choice
MatchRandomCandidates(r, candidates) ==
  /\ matchRandom[r].pc = "smembers"
  /\ LET matched == FirstOther(candidates, r) IN
     matchRandom' = [matchRandom EXCEPT ![r] =
       IF matched = ""
       THEN Respond(Idle, MatchResponse(FALSE, "", NoRoom, "no users available"))
       ELSE [Idle EXCEPT !.pc = "get_matched", !.matched = matched]]
  /\ UNCHANGED <<registryVars, createUser, matchSimilar, sweep, marking, nOps, brokerVars>>

\* mutation of MatchRandomGetMatched: a new room whatever the candidate holds
MatchRandomGetMatched_Mints(r) ==
  /\ matchRandom[r].pc = "get_matched"
  /\ matchRandom' = [matchRandom EXCEPT ![r].pc = "srem", ![r].room = NewRoom]
  /\ uuids' = NewRoom
  /\ UNCHANGED <<available_users, user_room, user, users, createUser, matchSimilar,
                 sweep, marking, nOps, brokerVars>>

\* GET /api/match/random, lines 224-225, 234: Get user_room:<matched>
MatchRandomGetMatched(r) ==
  /\ matchRandom[r].pc = "get_matched"
  /\ LET matchedRoom == user_room[matchRandom[r].matched] IN
     IF matchedRoom # NoRoom
     THEN /\ matchRandom' = [matchRandom EXCEPT ![r].pc = "attach_srem",
                                                ![r].room = matchedRoom]
          /\ UNCHANGED uuids
     ELSE /\ matchRandom' = [matchRandom EXCEPT ![r].pc = "srem", ![r].room = NewRoom]
          /\ uuids' = NewRoom
  /\ UNCHANGED <<available_users, user_room, user, users, createUser, matchSimilar,
                 sweep, marking, nOps, brokerVars>>

\* GET /api/match/random, line 227: SRem available_users requester
MatchRandomAttachSRem(r) ==
  /\ matchRandom[r].pc = "attach_srem"
  /\ available_users' = SRem(available_users, {r})
  /\ matchRandom' = [matchRandom EXCEPT ![r].pc = "attach_set"]
  /\ UNCHANGED <<user_room, user, users, uuids, createUser, matchSimilar, sweep,
                 marking, nOps, brokerVars>>

\* GET /api/match/random, lines 228-230: Set user_room:<requester>, the response
MatchRandomAttachSet(r) ==
  /\ matchRandom[r].pc = "attach_set"
  /\ user_room' = [user_room EXCEPT ![r] = matchRandom[r].room]
  /\ matchRandom' = [matchRandom EXCEPT ![r] =
       Respond(@, MatchResponse(TRUE, @.matched, @.room, ""))]
  /\ UNCHANGED <<available_users, user, users, uuids, createUser, matchSimilar, sweep,
                 marking, nOps, brokerVars>>

\* GET /api/match/random, line 235: SRem available_users requester matched; the
\* count it answers is only logged
MatchRandomSRem(r) ==
  /\ matchRandom[r].pc = "srem"
  /\ available_users' = SRem(available_users, {r, matchRandom[r].matched})
  /\ matchRandom' = [matchRandom EXCEPT ![r].pc = "set_requester",
                                         ![r].removed =
                                           available_users \cap {r, matchRandom[r].matched}]
  /\ UNCHANGED <<user_room, user, users, uuids, createUser, matchSimilar, sweep,
                 marking, nOps, brokerVars>>

\* GET /api/match/random, line 250: Set user_room:<requester>
MatchRandomSetRequester(r) ==
  /\ matchRandom[r].pc = "set_requester"
  /\ user_room' = [user_room EXCEPT ![r] = matchRandom[r].room]
  /\ matchRandom' = [matchRandom EXCEPT ![r].pc = "set_matched"]
  /\ UNCHANGED <<available_users, user, users, uuids, createUser, matchSimilar, sweep,
                 marking, nOps, brokerVars>>

\* GET /api/match/random, lines 251-253: Set user_room:<matched>, the response
MatchRandomSetMatched(r) ==
  /\ matchRandom[r].pc = "set_matched"
  /\ user_room' = [user_room EXCEPT ![matchRandom[r].matched] = matchRandom[r].room]
  /\ matchRandom' = [matchRandom EXCEPT ![r] =
       Respond(@, MatchResponse(TRUE, @.matched, @.room, ""))]
  /\ UNCHANGED <<available_users, user, users, uuids, createUser, matchSimilar, sweep,
                 marking, nOps, brokerVars>>

\* GET /api/match/random, line 250, when Redis answers with an error: the
\* handler drops it (_ = ...Err()) and goes on
MatchRandomSetRequesterFails(r) ==
  /\ matchRandom[r].pc = "set_requester"
  /\ matchRandom' = [matchRandom EXCEPT ![r].pc = "set_matched"]
  /\ UNCHANGED <<registryVars, createUser, matchSimilar, sweep, marking, nOps, brokerVars>>

\* GET /api/match/random, lines 251-253, when Redis answers with an error: the
\* handler drops it and answers the match
MatchRandomSetMatchedFails(r) ==
  /\ matchRandom[r].pc = "set_matched"
  /\ matchRandom' = [matchRandom EXCEPT ![r] =
       Respond(@, MatchResponse(TRUE, @.matched, @.room, ""))]
  /\ UNCHANGED <<registryVars, createUser, matchSimilar, sweep, marking, nOps, brokerVars>>

\* GET /api/match/random: the handler returns
MatchRandomReturn(r) ==
  /\ matchRandom[r].pc = "respond"
  /\ matchRandom' = [matchRandom EXCEPT ![r] = Idle]
  /\ UNCHANGED <<registryVars, createUser, matchSimilar, sweep, marking, nOps, brokerVars>>

\* GET /api/match/similar, lines 263-269: getUser(requester), userTags
MatchSimilar(r) ==
  /\ matchSimilar[r].pc = "idle"
  /\ nOps' = nOps + 1
  /\ matchSimilar' = [matchSimilar EXCEPT ![r] =
       IF user[r] = NoUser
       THEN Respond(Idle, NotFound)
       ELSE [Idle EXCEPT !.pc = "smembers", !.reqTags = userTags(user[r])]]
  /\ UNCHANGED <<registryVars, createUser, matchRandom, sweep, marking, brokerVars>>

\* GET /api/match/similar, lines 293-297: after the loop
AfterLoop(q) ==
  IF q.matched = ""
  THEN Respond(Idle, MatchResponse(FALSE, "", NoRoom, "no similar users available"))
  ELSE [q EXCEPT !.pc = "srem"]

\* GET /api/match/similar, lines 272-278: SMembers available_users
MatchSimilarCandidates(r, candidates) ==
  /\ matchSimilar[r].pc = "smembers"
  /\ matchSimilar' = [matchSimilar EXCEPT ![r] =
       IF Len(candidates) = 0 THEN AfterLoop(@)
       ELSE [@ EXCEPT !.pc = "loop", !.candidates = candidates, !.i = 1]]
  /\ UNCHANGED <<registryVars, createUser, matchRandom, sweep, marking, nOps, brokerVars>>

\* mutation of MatchSimilarLoop: a candidate that equals the best score replaces it
MatchSimilarLoop_LastWins(r) ==
  /\ matchSimilar[r].pc = "loop"
  /\ LET q == matchSimilar[r]
         id == q.candidates[q.i]
         s == intersectionScore(q.reqTags, userTags(user[id]))
         scored == IF id # r /\ user[id] # NoUser /\ s > 0 /\ s >= q.score
                   THEN [q EXCEPT !.matched = id, !.score = s]
                   ELSE q
     IN matchSimilar' = [matchSimilar EXCEPT ![r] =
          IF q.i = Len(q.candidates) THEN AfterLoop(scored)
          ELSE [scored EXCEPT !.i = @ + 1]]
  /\ UNCHANGED <<registryVars, createUser, matchRandom, sweep, marking, nOps, brokerVars>>

\* GET /api/match/similar, lines 279-292: one round of the loop; bestID is
\* kept in matched, bestScore in score
MatchSimilarLoop(r) ==
  /\ matchSimilar[r].pc = "loop"
  /\ LET q == matchSimilar[r]
         id == q.candidates[q.i]
         s == intersectionScore(q.reqTags, userTags(user[id]))
         scored == IF id # r /\ user[id] # NoUser /\ s > q.score
                   THEN [q EXCEPT !.matched = id, !.score = s]
                   ELSE q
     IN matchSimilar' = [matchSimilar EXCEPT ![r] =
          IF q.i = Len(q.candidates) THEN AfterLoop(scored)
          ELSE [scored EXCEPT !.i = @ + 1]]
  /\ UNCHANGED <<registryVars, createUser, matchRandom, sweep, marking, nOps, brokerVars>>

\* GET /api/match/similar, lines 297-299: the room id, SRem available_users
\* requester bestID, the response
MatchSimilarSRem(r) ==
  /\ matchSimilar[r].pc = "srem"
  /\ uuids' = NewRoom
  /\ available_users' = SRem(available_users, {r, matchSimilar[r].matched})
  /\ matchSimilar' = [matchSimilar EXCEPT ![r] =
       Respond(@, MatchResponse(TRUE, @.matched, NewRoom, ""))]
  /\ UNCHANGED <<user_room, user, users, createUser, matchRandom, sweep, marking, nOps,
                 brokerVars>>

\* GET /api/match/similar: the handler returns
MatchSimilarReturn(r) ==
  /\ matchSimilar[r].pc = "respond"
  /\ matchSimilar' = [matchSimilar EXCEPT ![r] = Idle]
  /\ UNCHANGED <<registryVars, createUser, matchRandom, sweep, marking, nOps, brokerVars>>

----------------------------------------------------------------------------
(* startMatchingService: the background sweep *)

\* between two ticks; before is history: the registry when the tick began;
\* removed is history: the ids its SRem removed
SweepIdle == [pc |-> "idle", candidates |-> <<>>, user1 |-> "", user2 |-> "",
              isUser1Available |-> FALSE, isUser2Available |-> FALSE,
              roomID |-> NoRoom, before |-> <<>>, removed |-> {}]

\* mutation of Tick: the sweep goes on only when it finds three ids
Tick_NeedsThree(candidates) ==
  /\ sweep.pc = "idle"
  /\ nOps' = IF nOps < MaxOps + MaxSerialOps THEN nOps + 1 ELSE nOps
  /\ sweep' = IF Len(candidates) >= 3
              THEN [SweepIdle EXCEPT !.pc = "check1", !.candidates = candidates,
                                     !.user1 = candidates[1], !.user2 = candidates[2],
                                     !.before = <<available_users, user_room>>]
              ELSE SweepIdle
  /\ UNCHANGED <<registryVars, createUser, matchRandom, matchSimilar, marking, brokerVars>>

\* lines 326-342: the ticker fires, SMembers available_users, the first two
\* (the count of requests and ticks stops at the sum of the scenarios' bounds)
Tick(candidates) ==
  /\ sweep.pc = "idle"
  /\ nOps' = IF nOps < MaxOps + MaxSerialOps THEN nOps + 1 ELSE nOps
  /\ sweep' = IF Len(candidates) >= 2
              THEN [SweepIdle EXCEPT !.pc = "check1", !.candidates = candidates,
                                     !.user1 = candidates[1], !.user2 = candidates[2],
                                     !.before = <<available_users, user_room>>]
              ELSE SweepIdle
  /\ UNCHANGED <<registryVars, createUser, matchRandom, matchSimilar, marking, brokerVars>>

\* line 345: SIsMember available_users user1
SweepCheck1 ==
  /\ sweep.pc = "check1"
  /\ sweep' = [sweep EXCEPT !.pc = "check2",
                            !.isUser1Available = sweep.user1 \in available_users]
  /\ UNCHANGED <<registryVars, createUser, matchRandom, matchSimilar, marking, nOps,
                 brokerVars>>

\* lines 346-358: SIsMember available_users user2, the test, the room id
SweepCheck2 ==
  /\ sweep.pc = "check2"
  /\ LET isUser2Available == sweep.user2 \in available_users IN
     IF ~sweep.isUser1Available \/ ~isUser2Available
     THEN /\ sweep' = SweepIdle
          /\ UNCHANGED uuids
     ELSE /\ sweep' = [sweep EXCEPT !.pc = "srem", !.isUser2Available = TRUE,
                                    !.roomID = NewRoom]
          /\ uuids' = NewRoom
  /\ UNCHANGED <<available_users, user_room, user, users, createUser, matchRandom,
                 matchSimilar, marking, nOps, brokerVars>>

\* lines 361-383: SRem available_users user1 user2 and the test of its count
SweepSRem ==
  /\ sweep.pc = "srem"
  /\ available_users' = SRem(available_users, {sweep.user1, sweep.user2})
  /\ LET removed == Removed(available_users, {sweep.user1, sweep.user2})
         took == available_users \cap {sweep.user1, sweep.user2} IN
     sweep' = IF removed = 2 THEN [sweep EXCEPT !.pc = "set1", !.removed = took]
              ELSE IF removed = 1 THEN [sweep EXCEPT !.pc = "restore_check",
                                                      !.removed = took]
              ELSE SweepIdle
  /\ UNCHANGED <<user_room, user, users, uuids, createUser, matchRandom, matchSimilar,
                 marking, nOps, brokerVars>>

\* line 375: SIsMember available_users user1
SweepRestoreCheck ==
  /\ sweep.pc = "restore_check"
  /\ sweep' = [sweep EXCEPT !.pc = "restore_add",
                            !.isUser1Available = sweep.user1 \in available_users]
  /\ UNCHANGED <<registryVars, createUser, matchRandom, matchSimilar, marking, nOps,
                 brokerVars>>

\* lines 376-382: SAdd available_users user2 or user1
SweepRestoreAdd ==
  /\ sweep.pc = "restore_add"
  /\ available_users' = available_users \cup
       {IF sweep.isUser1Available THEN sweep.user2 ELSE sweep.user1}
  /\ sweep' = SweepIdle
  /\ UNCHANGED <<user_room, user, users, uuids, createUser, matchRandom, matchSimilar,
                 marking, nOps, brokerVars>>

\* line 386: Set user_room:<user1>
SweepSet1 ==
  /\ sweep.pc = "set1"
  /\ user_room' = [user_room EXCEPT ![sweep.user1] = sweep.roomID]
  /\ sweep' = [sweep EXCEPT !.pc = "set2"]
  /\ UNCHANGED <<available_users, user, users, uuids, createUser, matchRandom,
                 matchSimilar, marking, nOps, brokerVars>>

\* line 387: Set user_room:<user2>; the tick is over
SweepSet2 ==
  /\ sweep.pc = "set2"
  /\ user_room' = [user_room EXCEPT ![sweep.user2] = sweep.roomID]
  /\ sweep' = SweepIdle
  /\ UNCHANGED <<available_users, user, users, uuids, createUser, matchRandom,
                 matchSimilar, marking, nOps, brokerVars>>

\* line 386, when Redis answers with an error: it is dropped
SweepSet1Fails ==
  /\ sweep.pc = "set1"
  /\ sweep' = [sweep EXCEPT !.pc = "set2"]
  /\ UNCHANGED <<registryVars, createUser, matchRandom, matchSimilar, marking, nOps,
                 brokerVars>>

\* line 387, when Redis answers with an error: it is dropped; the tick is over
SweepSet2Fails ==
  /\ sweep.pc = "set2"
  /\ sweep' = SweepIdle
  /\ UNCHANGED <<registryVars, createUser, matchRandom, matchSimilar, marking, nOps,
                 brokerVars>>

----------------------------------------------------------------------------
(* markUserAvailable: the goroutine a leave starts (it reaches the same     *)
(* Redis and the availability handler of this server)                      *)

\* lines 337-338: Get user_room:<user id>
MarkGet(p) ==
  /\ marking[p].get > 0
  /\ marking' = IF user_room[UserOfPeer(p)] # NoRoom
                THEN [marking EXCEPT ![p].get = @ - 1, ![p].del = @ + 1]
                ELSE [marking EXCEPT ![p].get = @ - 1, ![p].post = @ + 1]
  /\ UNCHANGED <<coordVars, brokerVars>>

\* line 340: Del user_room:<user id>
MarkDel(p) ==
  /\ marking[p].del > 0
  /\ user_room' = [user_room EXCEPT ![UserOfPeer(p)] = NoRoom]
  /\ marking' = [marking EXCEPT ![p].del = @ - 1, ![p].post = @ + 1]
  /\ UNCHANGED <<available_users, user, users, uuids, createUser, matchRandom,
                 matchSimilar, sweep, nOps, brokerVars>>

\* lines 347-361: POST /api/users/<user id>/availability {"available":true}
MarkPost(p) ==
  /\ marking[p].post > 0
  /\ Availability(UserOfPeer(p), TRUE)
  /\ marking' = [marking EXCEPT ![p].post = @ - 1]
  /\ UNCHANGED <<user_room, user, users, uuids, createUser, matchRandom,
                 matchSimilar, sweep, nOps, brokerVars>>

CoordInit ==
  /\ available_users = {}
  /\ user_room = [u \in RegistryIDs |-> NoRoom]
  /\ user = [u \in RegistryIDs |-> NoUser]
  /\ users = {}
  /\ uuids = 0
  /\ createUser = [u \in UserIDs |-> "idle"]
  /\ matchRandom = [u \in UserIDs |-> Idle]
  /\ matchSimilar = [u \in UserIDs |-> Idle]
  /\ sweep = SweepIdle
  /\ marking = [p \in PeerIDs |-> [get |-> 0, del |-> 0, post |-> 0]]
  /\ nOps = 0

BrokerInit ==
  /\ Rooms = [r \in RoomKeys |-> NilRoom]
  /\ RoomObj = [o \in ObjIds |-> [ID |-> "", Peers |-> {}]]
  /\ RoomID = [p \in PeerIDs |-> ""]
  /\ SendChan = [p \in PeerIDs |-> <<>>]
  /\ chanClosed = [p \in PeerIDs |-> FALSE]
  /\ pc = [p \in PeerIDs |-> "none"]
  /\ stack = [p \in PeerIDs |-> NoFrame]
  /\ writer = [p \in PeerIDs |-> "none"]
  /\ panicked = FALSE
  /\ everJoined = [o \in ObjIds |-> FALSE]
  /\ nFrames = 0
  /\ forwarded = [p \in PeerIDs |-> <<>>]
  /\ written = [p \in PeerIDs |-> <<>>]
  /\ told = [p \in PeerIDs |-> "none"]
  /\ stayed = [p \in PeerIDs |-> {}]
  /\ unnotified = [p \in PeerIDs |-> {}]
  /\ leftRoom = [p \in PeerIDs |-> {}]

\* the steps no client input is needed for
Accept(peers) ==
  \/ \E p \in peers : HandleWebRTCConnection(p)

Internal ==
  \/ \E p \in PeerIDs : JoinConfirm(p)
  \/ \E p \in PeerIDs : JoinNotify(p)
  \/ \E p \in PeerIDs : SendPendingError(p)

WriterSteps ==
  \/ \E p \in PeerIDs : handlePeerSend(p)

LeaveSteps ==
  \/ \E p \in PeerIDs : LeaveDelete(p)
  \/ \E p \in PeerIDs : LeaveConfirm(p)
  \/ \E p \in PeerIDs : LeaveNotify(p)
  \/ \E p \in PeerIDs : LeaveCleanup(p)
  \/ \E p \in PeerIDs : LeaveRemove(p)

DisconnectSteps ==
  \/ \E p \in PeerIDs : handlePeerDisconnect(p)
  \/ \E p \in PeerIDs : WriterExits(p)

JoinFrames == {f \in Frames : f.json = "ok" /\ f.type = "join_room"}
LeaveFrames == {f \in Frames : f.json = "ok" /\ f.type = "leave_room"}
ForwardFrames == {f \in Frames : f.json = "ok" /\ f.type \in ForwardTypes}

\* every kind of frame and of failure
Next ==
  \/ Accept(PeerIDs)
  \/ Internal
  \/ WriterSteps
  \/ LeaveSteps
  \/ DisconnectSteps
  \/ \E p \in PeerIDs : ForwardSend(p)
  \/ \E p \in PeerIDs, frame \in Frames : nFrames < MaxFrames /\ handlePeerMessages(p, frame)
  \/ \E p \in PeerIDs : nFrames < MaxFrames /\ ReadFails(p)
  \/ \E p \in PeerIDs : nFrames < MaxFrames /\ WriteFails(p)

\* scenario: clients that join, leave and disconnect; the writer goroutines,
\* which act on nothing but the channel they drain, are not scheduled
RoomsNext ==
  \/ Accept(PeerIDs)
  \/ Internal
  \/ LeaveSteps
  \/ DisconnectSteps
  \/ \E p \in PeerIDs, frame \in JoinFrames \cup LeaveFrames :
        nFrames < MaxScenarioFrames /\ handlePeerMessages(p, frame)
  \/ \E p \in PeerIDs : nFrames < MaxScenarioFrames /\ ReadFails(p)

\* scenario: two connections that join, leave and disconnect, with their writers
PairNext ==
  \/ Accept({"p1", "p2"})
  \/ Internal
  \/ WriterSteps
  \/ LeaveSteps
  \/ DisconnectSteps
  \/ \E p \in PeerIDs, frame \in JoinFrames \cup LeaveFrames :
        nFrames < MaxScenarioFrames /\ handlePeerMessages(p, frame)
  \/ \E p \in PeerIDs : nFrames < MaxScenarioFrames /\ ReadFails(p)

\* scenario: clients that join and exchange offers, answers and candidates
ForwardNext ==
  \/ Accept(PeerIDs)
  \/ Internal
  \/ WriterSteps
  \/ \E p \in PeerIDs : ForwardSend(p)
  \/ \E p \in PeerIDs, frame \in JoinFrames \cup ForwardFrames :
        nFrames < MaxScenarioFrames /\ handlePeerMessages(p, frame)

\* join_room frames without a room_id, or with an empty one: RoomID is ""
EmptyJoinFrames ==
  {[json |-> "ok", type |-> "join_room", room_id |-> "", data |-> JNull]}

\* scenario: clients that join rooms, some without naming one
EmptyJoinNext ==
  \/ Accept(PeerIDs)
  \/ Internal
  \/ \E p \in PeerIDs, frame \in JoinFrames \cup EmptyJoinFrames :
        nFrames < MaxScenarioFrames /\ handlePeerMessages(p, frame)

\* the frames of two clients that meet in room r1
MeetingFrames ==
  {f \in JoinFrames : f.room_id = "r1"}
  \cup LeaveFrames
  \cup {f \in ForwardFrames : f.type = "offer" /\ f.data = JString("sdp")}

\* scenario: two clients that join and leave one room and send offers
MeetingNext ==
  \/ Accept({"p1", "p2"})
  \/ Internal
  \/ LeaveSteps
  \/ \E p \in PeerIDs : ForwardSend(p)
  \/ \E p \in PeerIDs, frame \in MeetingFrames :
        nFrames < MaxMeetingFrames /\ handlePeerMessages(p, frame)

\* frames with a type tag the server does not know
UnknownFrames == {f \in Frames : f.json = "ok" /\ f.type = "bogus"}

\* peer.Conn.Read returns: with a frame or with an error (at the latest when
\* the 60 seconds of the read timeout are over)
ReadReturns(p, mayFail) ==
  \/ \E frame \in JoinFrames \cup LeaveFrames :
        nFrames < MaxWriterFrames /\ handlePeerMessages(p, frame)
  \/ \E frame \in UnknownFrames :
        (nFrames < MaxWriterFrames \/ writer[p] = "stopped") /\ handlePeerMessages(p, frame)
  \/ mayFail /\ nFrames < MaxWriterFrames /\ ReadFails(p)

\* scenario: two connections; a client whose writer goroutine has returned
\* after a failed write goes on sending frames of an unknown type for as long
\* as it likes
WriterNext ==
  \/ Accept({"p1", "p2"})
  \/ Internal
  \/ WriterSteps
  \/ LeaveSteps
  \/ DisconnectSteps
  \/ \E p \in PeerIDs : ReadReturns(p, TRUE)
  \/ \E p \in PeerIDs : nFrames < MaxWriterFrames /\ WriteFails(p)

\* the requests and ticks that have begun and not ended
InFlight ==
  Cardinality({u \in UserIDs : createUser[u] # "idle"})
  + Cardinality({u \in UserIDs : matchRandom[u].pc # "idle"})
  + Cardinality({u \in UserIDs : matchSimilar[u].pc # "idle"})
  + (IF sweep.pc # "idle" THEN 1 ELSE 0)

\* the later steps of the requests and of the tick
RegistrySteps ==
  \/ \E u \in UserIDs : CreateUserTrack(u)
  \/ \E u \in UserIDs : CreateUserAvailable(u)
  \/ \E r \in UserIDs, c \in Orders(available_users) : MatchRandomCandidates(r, c)
  \/ \E r \in UserIDs : MatchRandomGetMatched(r)
  \/ \E r \in UserIDs : MatchRandomAttachSRem(r)
  \/ \E r \in UserIDs : MatchRandomAttachSet(r)
  \/ \E r \in UserIDs : MatchRandomSRem(r)
  \/ \E r \in UserIDs : MatchRandomSetRequester(r)
  \/ \E r \in UserIDs : MatchRandomSetMatched(r)
  \/ \E r \in UserIDs : MatchRandomReturn(r)
  \/ \E r \in UserIDs, c \in Orders(available_users) : MatchSimilarCandidates(r, c)
  \/ \E r \in UserIDs : MatchSimilarLoop(r)
  \/ \E r \in UserIDs : MatchSimilarSRem(r)
  \/ \E r \in UserIDs : MatchSimilarReturn(r)

SweepSteps ==
  \/ SweepCheck1
  \/ SweepCheck2
  \/ SweepSRem
  \/ SweepSet1
  \/ SweepSet2

SweepRestoreSteps ==
  \/ SweepRestoreCheck
  \/ SweepRestoreAdd

MarkSteps ==
  \/ \E p \in PeerIDs : MarkGet(p)
  \/ \E p \in PeerIDs : MarkDel(p)
  \/ \E p \in PeerIDs : MarkPost(p)

\* a request or a tick begins
Begin(mayBegin) ==
  \/ \E body \in Bodies : mayBegin /\ CreateUser(body)
  \/ \E id \in UserIDs, available \in BOOLEAN : mayBegin /\ SetAvailability(id, available)
  \/ \E id \in UserIDs : mayBegin /\ ClearRoom(id)
  \/ \E r \in UserIDs : mayBegin /\ MatchRandom(r)
  \/ \E r \in UserIDs : mayBegin /\ MatchSimilar(r)
  \/ \E c \in Orders(available_users) : mayBegin /\ Tick(c)

\* the one connection whose leave reaches the coordinator
LeavingPeers == {"p1"}

\* the user whose browser opened the connection: it asks for a match with its
\* user id and then joins the room it was given
Participant(p) == IF p = "p1" THEN "u1" ELSE "u2"

\* the room_id the browser puts in its join_room for the room of a match
RoomName(room) == IF room = 1 THEN "r1" ELSE IF room = 2 THEN "r2" ELSE ""

\* the coordinator with requests and ticks that overlap, and a peer that joins
\* a room and leaves it
RegistryNext ==
  \/ Begin(nOps + nFrames < MaxOps /\ InFlight < MaxInFlight)
  \/ RegistrySteps
  \/ SweepSteps
  \/ SweepRestoreSteps
  \/ MarkSteps
  \/ Accept(LeavingPeers)
  \/ \E p \in LeavingPeers, frame \in JoinFrames \cup LeaveFrames :
        nOps + nFrames < MaxOps /\ handlePeerMessages(p, frame)
  \/ \E p \in LeavingPeers : JoinConfirm(p)
  \/ \E p \in LeavingPeers : JoinNotify(p)
  \/ LeaveSteps

\* the coordinator with requests and ticks that follow one another: none
\* begins before the one before it has ended
SerialNext ==
  \/ Begin(nOps < MaxSerialOps /\ InFlight = 0)
  \/ RegistrySteps
  \/ SweepSteps

\* the writes of a room assignment that Redis answers with an error
SetFailures ==
  \/ \E r \in UserIDs : MatchRandomSetRequesterFails(r)
  \/ \E r \in UserIDs : MatchRandomSetMatchedFails(r)
  \/ SweepSet1Fails
  \/ SweepSet2Fails

\* requests and ticks that follow one another, with a Redis whose writes of a
\* room assignment may fail
FaultyNext ==
  \/ Begin(nOps < MaxSerialOps /\ InFlight = 0)
  \/ RegistrySteps
  \/ SweepSteps
  \/ SetFailures

\* the ticker of startMatchingService fires
Ticks == \E c \in Orders(available_users) : Tick(c)

\* the sweep alone with the registry: the availability requests come between
\* two ticks and end, the ticks go on
SweepNext ==
  \/ \E id \in RegistryIDs, available \in BOOLEAN :
        sweep.pc = "idle" /\ nOps < MaxSerialOps /\ SetAvailability(id, available)
  \/ Ticks
  \/ SweepSteps

Init == BrokerInit /\ CoordInit
vars == <<brokerVars, coordVars, marking>>

\* the goroutines are scheduled, and every Read returns
WriterFairness ==
  /\ WF_vars(Internal)
  /\ WF_vars(WriterSteps)
  /\ WF_vars(LeaveSteps)
  /\ WF_vars(DisconnectSteps)
  /\ \A p \in PeerIDs : WF_vars(ReadReturns(p, TRUE))

\* the goroutines and the handlers that have begun are scheduled
LeaveFairness ==
  /\ WF_vars(LeaveSteps)
  /\ WF_vars(MarkSteps)
  /\ WF_vars(RegistrySteps)
  /\ WF_vars(SweepSteps)
  /\ WF_vars(SweepRestoreSteps)
  /\ \A p \in LeavingPeers : WF_vars(JoinConfirm(p)) /\ WF_vars(JoinNotify(p))

\* the ticker fires every 5 seconds and the goroutine of the sweep is scheduled
SweepFairness ==
  /\ WF_vars(Ticks)
  /\ WF_vars(SweepSteps)

Spec == Init /\ [][Next]_vars
SpecRooms == Init /\ [][RoomsNext]_vars
SpecPair == Init /\ [][PairNext]_vars
SpecForward == Init /\ [][ForwardNext]_vars
SpecRegistry == Init /\ [][RegistryNext]_vars
SpecSerial == Init /\ [][SerialNext]_vars
SpecWriter == Init /\ [][WriterNext]_vars /\ WriterFairness
SpecLeave == Init /\ [][RegistryNext]_vars /\ LeaveFairness
SpecEmptyJoin == Init /\ [][EmptyJoinNext]_vars
SpecFaulty == Init /\ [][FaultyNext]_vars
SpecMeeting == Init /\ [][MeetingNext]_vars
SpecSweep == Init /\ [][SweepNext]_vars /\ SweepFairness

----------------------------------------------------------------------------
(* Properties of the broker *)

\* the members of the room registered under rid ({} when there is none)
RoomHolds(rid) ==
  IF Rooms[rid] = NilRoom THEN {} ELSE RoomObj[Rooms[rid]].Peers

\* the messages waiting in a channel
Queued(p) == {SendChan[p][i] : i \in 1..Len(SendChan[p])}

LeavePositions ==
  {"leave_delete", "leave_confirm", "leave_notify", "leave_cleanup", "leave_remove"}

C1_JoinRejected(p, f) ==
  (handlePeerMessages(p, f) /\ Cardinality(RoomHolds(f.room_id)) >= 2)
    => /\ Rooms' = Rooms /\ RoomObj' = RoomObj /\ RoomID' = RoomID
       /\ pc'[p] = "send_error" /\ stack'[p].errorMsg = "Room is full"

C1_Answered(p) ==
  (SendPendingError(p) /\ stack[p].errorMsg = "Room is full")
    => SendChan' = [SendChan EXCEPT ![p] = Enqueue(@, ErrorMsg("Room is full"))]

\* C1: in every interleaving of join_room, leave_room and disconnect no Room
\* object ever has more than 2 members; a join_room processed while the room
\* registered under its room_id has 2 members changes no membership, no room
\* pointer and no table entry, and its handler passes the error "Room is full"
\* to the joining peer's channel (which keeps it unless it is full).
C1_RoomNeverOverTwo ==
  /\ [](\A o \in ObjIds : Cardinality(RoomObj[o].Peers) <= 2)
  /\ [][\A p \in PeerIDs :
          /\ \A f \in JoinFrames : C1_JoinRejected(p, f)
          /\ C1_Answered(p)]_vars

\* a third peer was refused and its error is in its channel, beside a room of 2
C1_Witness ==
  \E p \in PeerIDs, r \in RoomIDs :
    /\ ErrorMsg("Room is full") \in Queued(p)
    /\ Cardinality(RoomHolds(r)) = 2
    /\ p \notin RoomHolds(r)

C3_Original ==
  [][\A a, b \in PeerIDs :
       (/\ ForwardSend(a)
        /\ b # a
        /\ {a, b} \subseteq RoomObj[stack[a].room].Peers
        /\ RoomID[a] = RoomID[b])
         => SendChan'[b] = Enqueue(SendChan[b],
                                   [type |-> stack[a].message.type, room_id |-> "",
                                    peer_id |-> a, data |-> stack[a].message.data,
                                    error |-> ""])]_vars

\* C4 as stated: a forward of a peer a changes the channel of no peer but the
\* peers whose room pointer is a's room pointer, and never a's own.
C4_Original ==
  [][\A a, q \in PeerIDs :
       (ForwardSend(a) /\ SendChan'[q] # SendChan[q])
         => (q # a /\ RoomID[q] = RoomID[a])]_vars

\* C5, for the peers that are in the room from b's insertion to b's
\* notification loop: the join of b passes room_joined (b's peer id, the room
\* id) to b's channel, and then one peer_joined about b to the channel of each
\* peer the room held when b was inserted and still holds.  (A channel keeps
\* what it is passed unless it is full.)
C5_Original ==
  [][\A b \in PeerIDs :
       /\ JoinConfirm(b)
            => SendChan' = [SendChan EXCEPT ![b] =
                              Enqueue(@, RoomJoinedMsg(b, stack[b].message.room_id,
                                                       stack[b].isInitiator))]
       /\ JoinNotify(b)
            => \A q \in stack[b].found \cap RoomObj[stack[b].room].Peers :
                 SendChan'[q] = Enqueue(SendChan[q], PeerNoticeMsg("peer_joined", b))]_vars

----------------------------------------------------------------------------
(* Properties of the broker: rejections, leave and disconnect *)

\* the step changes no table entry, no membership and no room pointer
BrokerStateUnchanged == Rooms' = Rooms /\ RoomObj' = RoomObj /\ RoomID' = RoomID

\* the step passes the error to p's channel and touches no other channel
OnlyErrorTo(p, text) == SendChan' = [SendChan EXCEPT ![p] = Enqueue(@, ErrorMsg(text))]

\* C14: a leave_room, offer, answer or ice_candidate of a peer whose room
\* pointer is unassigned is answered "Not in a room", and a join_room that finds
\* 2 members in its room is answered "Room is full"; in both cases the table,
\* the memberships and the room pointers stay as they were and no channel but
\* the sender's is passed anything.  (A channel keeps what it is passed unless
\* it is full.)
C14_RejectedWithoutTransition ==
  [][\A p \in PeerIDs :
       /\ \A f \in LeaveFrames \cup ForwardFrames :
            (handlePeerMessages(p, f) /\ RoomID[p] = "")
              => (BrokerStateUnchanged /\ OnlyErrorTo(p, "Not in a room"))
       /\ \A f \in JoinFrames :
            (handlePeerMessages(p, f) /\ Cardinality(RoomHolds(f.room_id)) >= 2)
              => /\ BrokerStateUnchanged /\ SendChan' = SendChan
                 /\ pc'[p] = "send_error" /\ stack'[p].errorMsg = "Room is full"
       /\ (SendPendingError(p) /\ stack[p].errorMsg = "Room is full")
            => (BrokerStateUnchanged /\ OnlyErrorTo(p, "Room is full"))]_vars

\* a peer with no room was answered "Not in a room" while another peer is in a room
C14_Witness ==
  \E p, q \in PeerIDs :
    /\ p # q
    /\ RoomID[p] = "" /\ ErrorMsg("Not in a room") \in Queued(p)
    /\ RoomID[q] # "" /\ q \in RoomHolds(RoomID[q])
    /\ ErrorMsg("Not in a room") \notin Queued(q)

\* the peers that share the room of the Room object o with p: the members of o,
\* p apart, whose room pointer names that room
Occupants(o, p) == {q \in RoomObj[o].Peers \ {p} : RoomID[q] = RoomObj[o].ID}

\* C15 as stated: a leave_room of a peer p whose room is in the table removes p
\* from that room and resets p's room pointer, then passes room_left to p's
\* channel, then passes one peer_left carrying p's id to the channel of the
\* remaining occupant of the room, if there is one, and to no other channel.
\* (A channel keeps what it is passed unless it is full.)
C15_Original ==
  [][\A p \in PeerIDs :
       /\ \A f \in LeaveFrames :
            (handlePeerMessages(p, f) /\ RoomID[p] # "" /\ Rooms[RoomID[p]] # NilRoom)
              => (pc'[p] = "leave_delete" /\ stack'[p].room = Rooms[RoomID[p]])
       /\ (LeaveDelete(p) /\ ~stack[p].disconnecting)
            => (p \notin RoomObj'[stack[p].room].Peers /\ RoomID'[p] = "")
       /\ (LeaveConfirm(p) /\ ~stack[p].disconnecting)
            => SendChan' = [SendChan EXCEPT ![p] =
                              Enqueue(@, RoomLeftMsg(p, RoomObj[stack[p].room].ID))]
       /\ (LeaveNotify(p) /\ ~stack[p].disconnecting)
            => SendChan' = Deliver(Occupants(stack[p].room, p),
                                   PeerNoticeMsg("peer_left", p))]_vars

\* C16 as stated: a join_room of a peer whose room pointer is assigned is
\* rejected: the handler goes on to report an error to that peer, and no room
\* pointer, no membership and no table entry changes.
C16_Original ==
  [][\A p \in PeerIDs, f \in JoinFrames :
       (handlePeerMessages(p, f) /\ RoomID[p] # "")
         => /\ BrokerStateUnchanged
            /\ pc'[p] = "send_error" /\ stack'[p].errorMsg # ""]_vars

\* C17 as stated: a peer whose disconnect has completed is a member of no room
\* of the table, whatever join_room and leave_room messages it sent before.
C17_Original ==
  \A p \in PeerIDs : pc[p] = "done" => \A r \in RoomIDs : p \notin RoomHolds(r)

\* C18 as stated: when the writer goroutine of a peer has returned after a
\* failed write, the disconnect of that peer is eventually performed, also
\* when the reads from that peer keep succeeding.
C18_Original ==
  \A p \in PeerIDs :
    (writer[p] = "stopped" /\ ~panicked) ~> (pc[p] = "done" \/ panicked)

\* handlePeerDisconnect is running for p
Disconnecting(p) ==
  \/ pc[p] = "disc_close"
  \/ pc[p] \in LeavePositions \cup {"send_error"} /\ stack[p].disconnecting

\* C19: for every connection handlePeerDisconnect starts only in the step in
\* which the reader's Read fails, runs until the peer is done and never starts
\* again; no step of the writer goroutine starts it or closes the channel; and
\* the channel is closed only by the last step of handlePeerDisconnect, which
\* finds it open.
C19_DisconnectOnce ==
  [][\A p \in PeerIDs :
       /\ (~Disconnecting(p) /\ Disconnecting(p)') => (pc[p] = "read" /\ ReadFails(p))
       /\ Disconnecting(p) => (Disconnecting(p)' \/ pc'[p] = "done" \/ panicked')
       /\ pc[p] = "done" => pc'[p] = "done"
       /\ (handlePeerSend(p) \/ WriteFails(p) \/ WriterExits(p))
            => (pc' = pc /\ stack' = stack /\ chanClosed' = chanClosed)
       /\ chanClosed'[p] # chanClosed[p]
            => (handlePeerDisconnect(p) /\ ~chanClosed[p] /\ pc'[p] = "done")]_vars

\* a connection whose write failed and whose reader then ran the disconnect
C19_Witness ==
  \E p \in PeerIDs : pc[p] = "done" /\ chanClosed[p] /\ writer[p] = "stopped"

-----------------------------------------------------------------------------
(* Properties of the broker: the queues *)

\* the messages of log whose sender is a
FromPeer(log, a) == SelectSeq(log, LAMBDA m : m.peer_id = a)

\* s can be obtained from t by leaving messages out
RECURSIVE IsSubseq(_, _)
IsSubseq(s, t) ==
  IF s = <<>> THEN TRUE
  ELSE IF t = <<>> THEN FALSE
  ELSE IF Head(s) = Head(t) THEN IsSubseq(Tail(s), Tail(t))
  ELSE IsSubseq(s, Tail(t))

\* C21: the forwards of a peer a that are written to the transport of a peer b
\* are, in the order of the writes, a subsequence of the forwards a sent to b:
\* some may be missing, none is written twice or before an earlier one
C21_ForwardOrder ==
  \A a \in PeerIDs, b \in PeerIDs :
    IsSubseq(FromPeer(written[b], a), FromPeer(forwarded[b], a))

\* two different forwards of one peer were written to another peer's transport
C21_Witness ==
  \E a \in PeerIDs, b \in PeerIDs :
    /\ a # b
    /\ Len(FromPeer(written[b], a)) = 2
    /\ FromPeer(written[b], a)[1] # FromPeer(written[b], a)[2]
    /\ FromPeer(written[b], a) = FromPeer(forwarded[b], a)

\* the peers the next send of p's handler is for
SendTargets(p) ==
  CASE pc[p] \in {"join_confirm", "leave_confirm", "send_error"} -> {p}
    [] pc[p] \in {"join_notify", "leave_notify"} -> notifyPeersInRoom(stack[p].room, p)
    [] pc[p] = "forward" -> ForwardTargets(p, stack[p].room)
    [] OTHER -> {}

\* a step in which p's handler calls sendToPeer for every peer of SendTargets(p)
SendStep(p) ==
  \/ JoinConfirm(p) \/ JoinNotify(p) \/ LeaveConfirm(p) \/ LeaveNotify(p)
  \/ ForwardSend(p) \/ SendPendingError(p)

\* C22: a handler that is about to send can always take the step, whatever the
\* queues hold, and a send to a peer whose queue is full leaves that queue as
\* it was (same messages, same order): the new message is the one dropped
C22_DropNewest ==
  /\ [](\A p \in PeerIDs :
          (~panicked /\ SendTargets(p) # {}) => ENABLED SendStep(p))
  /\ [][\A p \in PeerIDs, q \in PeerIDs :
          (SendStep(p) /\ q \in SendTargets(p) /\ Len(SendChan[q]) = MaxQueue)
            => /\ SendChan'[q] = SendChan[q]
               /\ panicked' \/ pc'[p] # pc[p]]_vars

\* a peer_left was dropped: b joined a's room and has left it while a stayed,
\* a's queue is full and holds the peer_joined of b but not its peer_left
C22_Witness ==
  \E a \in PeerIDs, b \in PeerIDs :
    /\ a # b /\ ~panicked
    /\ RoomID[a] # "" /\ a \in RoomHolds(RoomID[a])
    /\ Len(SendChan[a]) = MaxQueue
    /\ PeerNoticeMsg("peer_joined", b) \in Queued(a)
    /\ PeerNoticeMsg("peer_left", b) \notin Queued(a)
    /\ RoomID[b] = "" /\ pc[b] = "read"

-----------------------------------------------------------------------------
(* Properties of the broker: frames the handlers do not accept *)

\* frames that json.Unmarshal rejects
MalformedFrames == {f \in Frames : f.json = "malformed"}

\* the reader took the frame, passed the error text to p's channel and nothing
\* to any other, and is back at its Read; no room, pointer or channel state moved
AnsweredAndReadsOn(p, text) ==
  /\ BrokerStateUnchanged /\ OnlyErrorTo(p, text)
  /\ pc'[p] = "read" /\ chanClosed' = chanClosed /\ writer' = writer
  /\ ~panicked'

\* C23: a frame that does not parse is answered "Invalid message format" and a
\* frame with an unknown type tag "Unknown message type", to the sender's
\* channel only; the sender's reader goes on reading and is not disconnected,
\* and the table, the memberships, the room pointers and the other peers'
\* channels stay as they were
C23_BadFrameAnswered ==
  [][\A p \in PeerIDs :
       /\ \A f \in MalformedFrames :
            handlePeerMessages(p, f) => AnsweredAndReadsOn(p, "Invalid message format")
       /\ \A f \in UnknownFrames :
            handlePeerMessages(p, f) => AnsweredAndReadsOn(p, "Unknown message type")]_vars

\* a peer was answered both errors and reads on, while another peer is in a
\* room and was passed no error
C23_Witness ==
  \E p \in PeerIDs, q \in PeerIDs :
    /\ p # q /\ pc[p] = "read"
    /\ SendChan[p] = <<ErrorMsg("Invalid message format"), ErrorMsg("Unknown message type")>>
    /\ RoomID[q] # "" /\ q \in RoomHolds(RoomID[q])
    /\ \A m \in Queued(q) : m.type # "error"

\* C24 as stated: a join_room whose room_id is absent or empty creates no room
\* in the table and makes its sender a member of no room
C24_Original ==
  [][\A p \in PeerIDs, f \in EmptyJoinFrames :
       handlePeerMessages(p, f)
         => /\ Rooms' = Rooms
            /\ \A o \in ObjIds : p \in RoomObj'[o].Peers => p \in RoomObj[o].Peers]_vars

-----------------------------------------------------------------------------
(* Properties of the broker: the closed queue *)

\* C30 as stated: no message is ever sent to a channel that the disconnect of
\* its peer has closed (such a send panics and ends the process)
C30_Original == ~panicked

-----------------------------------------------------------------------------
(* Properties of the broker: the table, the memberships and the pointers *)

\* no handler of a join, a leave or a disconnect is between its first and its
\* last step
HandlersIdle == \A p \in PeerIDs : pc[p] \in {"none", "read", "done"}

\* the Room objects some peer is a member of
ObjectsWith(p) == {o \in ObjIds : p \in RoomObj[o].Peers}

\* C31 as stated: whenever no handler is mid-execution, a peer whose room
\* pointer is r is a member of the room the table holds under r, a member of a
\* room of the table has that room's id as its pointer, and no peer is a
\* member of a Room object the table does not hold or of two Room objects
C31_Original ==
  (HandlersIdle /\ ~panicked) =>
    /\ \A p \in PeerIDs : RoomID[p] # "" => p \in RoomHolds(RoomID[p])
    /\ \A r \in RoomKeys : \A p \in RoomHolds(r) : RoomID[p] = r
    /\ \A p \in PeerIDs : ObjectsWith(p) \subseteq {Rooms[r] : r \in RoomKeys}
    /\ \A p \in PeerIDs : Cardinality(ObjectsWith(p)) <= 1

-----------------------------------------------------------------------------
(* Properties of the broker: the locks around room.Peers *)

\* the locks of the code: s.Mutex and, for every Room object, its room.Mutex
ServerMutex == <<"s.Mutex", NilRoom>>
RoomMutex(o) == <<"room.Mutex", o>>
Locked(l) == [lock |-> l, exclusive |-> TRUE]      \* Lock()
RLocked(l) == [lock |-> l, exclusive |-> FALSE]    \* RLock()

\* an access to the Peers map of the Room object o and the locks held during it
PeersAccess(o, isWrite, held) == [room |-> o, write |-> isWrite, locks |-> held]

\* the accesses to a Peers map that the next step of p's reader goroutine makes:
\* at Read, a join_room for a room of the table (len and insert under s.Mutex,
\* lines 192-233); the len of line 252 (no lock) and the loop of
\* notifyPeersInRoom (room.Mutex.RLock); the delete of line 286
\* (room.Mutex.Lock); the len of line 307 (no lock); the loops of the forwards
\* (room.Mutex.RLock)
PeersAccesses(p) ==
  CASE pc[p] = "read" ->
         {PeersAccess(Rooms[r], ~RoomIsFull(Cardinality(RoomObj[Rooms[r]].Peers)),
                      {Locked(ServerMutex)}) :
            r \in {k \in RoomKeys : Rooms[k] # NilRoom}}
    [] pc[p] = "join_notify" ->
         {PeersAccess(stack[p].room, FALSE, {}),
          PeersAccess(stack[p].room, FALSE, {RLocked(RoomMutex(stack[p].room))})}
    [] pc[p] = "leave_delete" ->
         {PeersAccess(stack[p].room, TRUE, {Locked(RoomMutex(stack[p].room))})}
    [] pc[p] \in {"leave_notify", "forward"} ->
         {PeersAccess(stack[p].room, FALSE, {RLocked(RoomMutex(stack[p].room))})}
    [] pc[p] = "leave_cleanup" ->
         {PeersAccess(stack[p].room, FALSE, {})}
    [] OTHER -> {}

\* the two accesses hold a common lock, one of them exclusively
Excluded(a, b) ==
  \E la \in a.locks, lb \in b.locks :
    la.lock = lb.lock /\ (la.exclusive \/ lb.exclusive)

\* C32 as stated: whenever two goroutines are each about to access the Peers
\* map of the same Room object and one of the accesses is a write, the two
\* accesses hold a common lock, the write exclusively, so that they cannot
\* overlap
C32_Original ==
  ~panicked =>
    \A p \in PeerIDs, q \in PeerIDs :
      \A a \in PeersAccesses(p), b \in PeersAccesses(q) :
        (p # q /\ a.room = b.room /\ a.write) => Excluded(a, b)

\* C33: whenever no handler is mid-execution, every room the table holds has
\* a member
C33_NoEmptyRoom ==
  (HandlersIdle /\ ~panicked) =>
    \A r \in RoomKeys : Rooms[r] # NilRoom => RoomObj[Rooms[r]].Peers # {}

\* no handler is mid-execution, a room that had a member has lost its last one
\* and is out of the table, and another room is in the table
C33_Witness ==
  /\ HandlersIdle /\ ~panicked
  /\ \E o \in ObjIds :
       /\ everJoined[o] /\ RoomObj[o].Peers = {}
       /\ \A r \in RoomKeys : Rooms[r] # o
  /\ \E r \in RoomKeys : Rooms[r] # NilRoom

----------------------------------------------------------------------------
(* Properties of the broker: the initiator of a room *)

\* the members of the room under rid that the last room_joined sent to them
\* named the initiator
Initiators(rid) == {p \in RoomHolds(rid) : told[p] = "true"}

\* C34: when no handler is mid-execution, a room of the table that has two
\* members has exactly one member whose room_joined said is_initiator = true,
\* whatever joins and leaves came before
C34_Original ==
  (HandlersIdle /\ ~panicked) =>
    \A r \in RoomKeys :
      Cardinality(RoomHolds(r)) = 2 => Cardinality(Initiators(r)) = 1

----------------------------------------------------------------------------
(* Properties of the broker: the order of notices and forwards *)

\* the step in which the reader of b passes its forward to sendToPeer for a
ForwardsTo(b, a) ==
  /\ ForwardSend(b) /\ ~panicked'
  /\ a \in ForwardTargets(b, stack[b].room)

\* C35 as stated: a forward of b is passed to a peer the room held when b
\* joined only after the peer_joined about b was passed to that peer
C35_Original ==
  [][\A b \in PeerIDs, a \in PeerIDs : ForwardsTo(b, a) => a \notin unnotified[b]]_vars

\* C35: a forward of b is passed to a peer that the room held when b joined
\* and holds since only after the peer_joined about b was passed to that peer
C35_NoticeBeforeForward ==
  [][\A b \in PeerIDs, a \in PeerIDs :
       ForwardsTo(b, a) => ~(a \in stayed[b] /\ a \in unnotified[b])]_vars

\* a forward of b was passed to a peer that the room held when b joined and
\* holds since, and that was passed the peer_joined about b
C35_Witness ==
  \E b \in PeerIDs, a \in PeerIDs :
    /\ a # b /\ a \in stayed[b] /\ a \notin unnotified[b]
    /\ FromPeer(forwarded[a], b) # <<>>
    /\ ~panicked

\* C36: a forward of another member of the room b joins is passed to b only
\* after the room_joined of that join was passed to b
C36_Original ==
  [][\A x \in PeerIDs, b \in PeerIDs :
       ForwardsTo(x, b) => ~(pc[b] = "join_confirm" /\ stack[b].room = stack[x].room)]_vars

----------------------------------------------------------------------------
(* Properties of the coordinator *)

\* the step in which a request of slot q for requester r writes its response
Completes(q, r) == q[r].pc # "respond" /\ q'[r].pc = "respond"

\* after the step: neither of the paired ids is available and both are
\* assigned the room of the response
PairedAfter(r, resp) ==
  /\ r \notin available_users'
  /\ resp.UserID \notin available_users'
  /\ user_room'[r] = resp.RoomID
  /\ user_room'[resp.UserID] = resp.RoomID

\* C6 as stated: when GET /api/match/random answers matched=true with a
\* candidate c for requester r (the new-room path and the attach path), then in
\* the state of that answer neither r nor c is in available_users and user_room
\* sends r and c to the room of the answer.
C6_Original ==
  [][\A r \in UserIDs :
       (/\ Completes(matchRandom, r)
        /\ matchRandom'[r].resp.Matched
        /\ matchRandom'[r].resp.UserID # "")
         => PairedAfter(r, matchRandom'[r].resp)]_vars

\* C7 as stated: when GET /api/match/similar answers matched=true with a
\* candidate c for requester r, then neither r nor c is in available_users and
\* user_room sends r and c to the room of the answer.
C7_Original ==
  [][\A r \in UserIDs :
       (Completes(matchSimilar, r) /\ matchSimilar'[r].resp.Matched)
         => PairedAfter(r, matchSimilar'[r].resp)]_vars

\* the step that ends a tick which went on after its snapshot
TickEnds == sweep.pc # "idle" /\ sweep'.pc = "idle"

\* the tick took the first two ids of its snapshot out of available_users, gave
\* both one room id that no id had before, and left available_users otherwise
\* as it was when the tick began
PairsFirstTwo ==
  LET first == {sweep.candidates[1], sweep.candidates[2]} IN
  /\ available_users' = sweep.before[1] \ first
  /\ user_room'[sweep.candidates[1]] = user_room'[sweep.candidates[2]]
  /\ user_room'[sweep.candidates[1]] # NoRoom
  /\ \A u \in RegistryIDs : sweep.before[2][u] # user_room'[sweep.candidates[1]]

\* C8 as stated: in a run where nothing overlaps the tick, a tick on
\* n >= 2 available ids takes exactly the first two of its snapshot out of
\* available_users and assigns both one new room id, the other n-2 ids stay
\* available and have no room assignment; a tick on n < 2 ids changes nothing.
C8_Original ==
  [][/\ \A c \in Orders(available_users) :
          (Tick(c) /\ Len(c) < 2) => UNCHANGED registryVars
     /\ TickEnds
          => /\ Len(sweep.candidates) = Cardinality(sweep.before[1])
             /\ PairsFirstTwo
             /\ \A i \in 3..Len(sweep.candidates) :
                  /\ sweep.candidates[i] \in available_users'
                  /\ user_room'[sweep.candidates[i]] = NoRoom]_vars

\* in a run where nothing overlaps the tick, a tick that went on after its
\* snapshot pairs the first two ids of the snapshot and leaves every other id
\* in available_users and under the user_room value it had
TickLeavesOthersAsTheyWere ==
  [][TickEnds
       => /\ PairsFirstTwo
          /\ \A u \in RegistryIDs \ {sweep.candidates[1], sweep.candidates[2]} :
               /\ user_room'[u] = sweep.before[2][u]
               /\ (u \in available_users') = (u \in sweep.before[1])]_vars

\* C9: GET /api/match/random for a requester that has a room assignment
\* answers matched=true with that room id and leaves available_users and every
\* user_room key as they were, so that the next call for that requester takes the
\* same branch on the same value and answers the same room id.
C9_AssignedRequesterSameRoom ==
  [][\A r \in UserIDs :
       /\ (MatchRandom(r) /\ user_room[r] # NoRoom)
            => /\ matchRandom'[r].pc = "respond"
               /\ matchRandom'[r].resp.Matched
               /\ matchRandom'[r].resp.RoomID = user_room[r]
               /\ available_users' = available_users
               /\ user_room' = user_room
       /\ MatchRandomReturn(r)
            => (available_users' = available_users /\ user_room' = user_room)]_vars

\* a requester that a pairing gave a room called again and was answered its room
C9_Witness ==
  \E r \in UserIDs :
    /\ matchRandom[r].pc = "respond"
    /\ matchRandom[r].resp.Matched /\ matchRandom[r].resp.UserID = ""
    /\ user_room[r] # NoRoom
    /\ matchRandom[r].resp.RoomID = user_room[r]

\* no request, no tick and no markUserAvailable is between two of its steps
Quiescent ==
  /\ InFlight = 0
  /\ \A p \in PeerIDs : marking[p] = [get |-> 0, del |-> 0, post |-> 0]

\* C10 as stated: whenever no operation is mid-execution, no id is both in
\* available_users and a key of user_room.
C10_Original ==
  Quiescent => \A u \in RegistryIDs : ~(u \in available_users /\ user_room[u] # NoRoom)

\* the pairings between their removal and their last write, by the ids they write
WritesFor(u) ==
  \/ \E r \in UserIDs :
       \/ matchRandom[r].pc = "set_requester" /\ u \in {r, matchRandom[r].matched}
       \/ matchRandom[r].pc = "set_matched" /\ u = matchRandom[r].matched
       \/ matchRandom[r].pc = "attach_set" /\ u = r
  \/ sweep.pc = "set1" /\ u \in {sweep.user1, sweep.user2}
  \/ sweep.pc = "set2" /\ u = sweep.user2

\* C11 as stated: when two ids u and v are assigned the same room, no step of a
\* pairing (on-demand, similarity or sweep) replaces the room of u by another
\* room while that assignment is present.
C11_Original ==
  [][\A u \in RegistryIDs :
       (/\ user_room[u] # NoRoom
        /\ \E v \in RegistryIDs \ {u} : user_room[v] = user_room[u])
         => user_room'[u] \in {user_room[u], NoRoom}]_vars

\* C12 as stated: when two pairings have chosen the same id u from their
\* snapshots of available_users and one of them removed u, the other one, whose
\* SRem did not remove u, does not write a room for u.
C12_Original ==
  [][\A r \in UserIDs :
       (/\ MatchRandomSetMatched(r)
        /\ \/ \E o \in UserIDs \ {r} :
                /\ matchRandom[o].pc \in {"set_requester", "set_matched"}
                /\ matchRandom[o].matched = matchRandom[r].matched
                /\ matchRandom[r].matched \in matchRandom[o].removed
           \/ /\ sweep.pc \in {"set1", "set2"}
              /\ matchRandom[r].matched \in sweep.removed)
         => matchRandom[r].matched \in matchRandom[r].removed]_vars

\* the ids of the sweep's pair that an on-demand pairing still in progress removed
LostTo ==
  {u \in {sweep.user1, sweep.user2} :
     \E r \in UserIDs : /\ matchRandom[r].pc \in {"set_requester", "set_matched"}
                        /\ u \in matchRandom[r].removed}

\* the step that ends a tick whose SRem removed fewer than 2 ids because an
\* on-demand pairing had removed the others
TickLosesRace ==
  \/ SweepRestoreAdd /\ LostTo \cup sweep.removed = {sweep.user1, sweep.user2}
  \/ /\ SweepSRem
     /\ Removed(available_users, {sweep.user1, sweep.user2}) = 0
     /\ LostTo = {sweep.user1, sweep.user2}

\* C13 as stated: when the SRem of the sweep removed fewer than 2 ids because
\* it lost a race to a concurrent pairing, after the tick each of the two ids
\* is in available_users or has a room (or is about to be written one by the
\* pairing that won it), and the id the sweep adds back has no room and is not
\* about to be written one.
C13_Original ==
  [][TickLosesRace =>
       /\ \A u \in {sweep.user1, sweep.user2} :
            u \in available_users' \/ user_room'[u] # NoRoom \/ WritesFor(u)
       /\ \A u \in available_users' \ available_users :
            user_room'[u] = NoRoom /\ ~WritesFor(u)]_vars

\* C20 as stated: when a peer has left the room that matchmaking assigned to
\* its user, the room assignment of that user is eventually cleared and the
\* user is eventually back in available_users.
C20_Original ==
  \A p \in LeavingPeers :
    (/\ pc[p] = "leave_confirm"
     /\ user_room[Participant(p)] # NoRoom
     /\ RoomObj[stack[p].room].ID = RoomName(user_room[Participant(p)]))
      ~> (/\ user_room[Participant(p)] = NoRoom
          /\ Participant(p) \in available_users)

\* after the step u is in the availability set or is assigned the room
BackOrAssigned(u, room) == u \in available_users' \/ user_room'[u] = room

\* C25 as stated: when a pairing attempt that took its two ids out of the
\* availability set ends, with or without a failed write of a room assignment,
\* each of the two ids is in the availability set or is assigned the attempt's
\* room
C25_Original ==
  [][/\ \A r \in UserIDs :
          (MatchRandomSetMatched(r) \/ MatchRandomSetMatchedFails(r))
            => \A u \in {r, matchRandom[r].matched} :
                 BackOrAssigned(u, matchRandom[r].room)
     /\ (SweepSet2 \/ SweepSet2Fails)
          => \A u \in {sweep.user1, sweep.user2} : BackOrAssigned(u, sweep.roomID)]_vars

\* the number of tags the requester of q shares with the profile stored for id
Shared(q, id) == Cardinality(q.reqTags \cap userTags(user[id]))

\* the positions of q.candidates that hold a candidate other than r with a
\* profile that shares least tags or more with the requester
Scored(r, q, least) ==
  {i \in 1..Len(q.candidates) :
     /\ q.candidates[i] # r /\ user[q.candidates[i]] # NoUser
     /\ Shared(q, q.candidates[i]) >= least}

\* the first position of E whose candidate shares the most tags
FirstBest(q, E) ==
  CHOOSE i \in E :
    /\ \A j \in E : Shared(q, q.candidates[j]) <= Shared(q, q.candidates[i])
    /\ \A j \in E : j < i => Shared(q, q.candidates[j]) < Shared(q, q.candidates[i])

\* the step of r's request that ends the loop over the candidates
LoopEnds(r) ==
  MatchSimilarLoop(r) /\ matchSimilar[r].i = Len(matchSimilar[r].candidates)

\* the request has chosen the candidate at the first best position of E
Selects(r, E) ==
  /\ matchSimilar'[r].pc = "srem"
  /\ matchSimilar'[r].matched = matchSimilar[r].candidates[FirstBest(matchSimilar[r], E)]

\* C26 as stated: whenever a candidate other than the requester has a profile,
\* the request selects the first of the candidates that share the most tags
C26_Original ==
  [][\A r \in UserIDs :
       (LoopEnds(r) /\ Scored(r, matchSimilar[r], 0) # {})
         => Selects(r, Scored(r, matchSimilar[r], 0))]_vars

\* C26, amended: whenever a candidate other than the requester has a profile
\* that shares a tag with the requester's, the request selects the first of the
\* candidates that share the most tags; when no candidate shares a tag it
\* selects none and answers "no similar users available"
C26_SelectsFirstBestSharing ==
  [][\A r \in UserIDs :
       LoopEnds(r)
         => IF Scored(r, matchSimilar[r], 1) # {}
            THEN Selects(r, Scored(r, matchSimilar[r], 1))
            ELSE /\ matchSimilar'[r].pc = "respond"
                 /\ matchSimilar'[r].resp =
                      MatchResponse(FALSE, "", NoRoom, "no similar users available")]_vars

\* a request has chosen the first of two candidates that share the same, positive,
\* number of tags with the requester
C26_Witness ==
  \E r \in UserIDs :
    LET q == matchSimilar[r] IN
    /\ q.pc = "srem"
    /\ \E i \in 1..Len(q.candidates), j \in 1..Len(q.candidates) :
         /\ i < j /\ q.candidates[i] = q.matched /\ q.candidates[j] # r
         /\ user[q.candidates[j]] # NoUser
         /\ Shared(q, q.candidates[i]) = Shared(q, q.candidates[j])
         /\ Shared(q, q.candidates[i]) > 0

\* C27: a similarity request of a requester without a profile is answered 404
\* "user not found", and from its first step to its return the availability
\* set and the room assignments are what they were
C27_NoProfileNotFound ==
  [][\A r \in UserIDs :
       /\ (MatchSimilar(r) /\ user[r] = NoUser)
            => /\ matchSimilar'[r].pc = "respond"
               /\ matchSimilar'[r].resp.Status = 404
               /\ matchSimilar'[r].resp.Reason = "user not found"
               /\ ~matchSimilar'[r].resp.Matched
               /\ available_users' = available_users /\ user_room' = user_room
       /\ (MatchSimilarReturn(r) /\ matchSimilar[r].resp.Status = 404)
            => /\ matchSimilar'[r].pc = "idle"
               /\ available_users' = available_users /\ user_room' = user_room]_vars

\* a requester without a profile, itself available next to a candidate with a
\* profile, has been answered "user not found"
C27_Witness ==
  \E r \in UserIDs, u \in UserIDs :
    /\ u # r /\ user[r] = NoUser /\ user[u] # NoUser
    /\ {r, u} \subseteq available_users
    /\ matchSimilar[r].pc = "respond"
    /\ matchSimilar[r].resp.Status = 404 /\ matchSimilar[r].resp.Reason = "user not found"

\* C28: an on-demand request whose candidate holds a room assignment takes that
\* room and mints none; it removes the requester, and nobody else, from the
\* availability set, writes the room as the requester's assignment and no
\* other assignment, and answers with the candidate and that room
C28_AttachesToCandidateRoom ==
  [][\A r \in UserIDs :
       LET q == matchRandom[r] IN
       /\ (MatchRandomGetMatched(r) /\ user_room[q.matched] # NoRoom)
            => /\ matchRandom'[r].pc = "attach_srem"
               /\ matchRandom'[r].room = user_room[q.matched]
               /\ uuids' = uuids /\ user_room' = user_room
               /\ available_users' = available_users
       /\ MatchRandomAttachSRem(r)
            => /\ available_users' = available_users \ {r}
               /\ matchRandom'[r].pc = "attach_set" /\ matchRandom'[r].room = q.room
               /\ uuids' = uuids /\ user_room' = user_room
       /\ MatchRandomAttachSet(r)
            => /\ user_room' = [user_room EXCEPT ![r] = q.room]
               /\ uuids' = uuids /\ available_users' = available_users
               /\ matchRandom'[r].pc = "respond"
               /\ matchRandom'[r].resp = MatchResponse(TRUE, q.matched, q.room, "")]_vars

\* a request was answered with the room its candidate already held: the
\* candidate is still available, the requester is not, both hold that room
C28_Witness ==
  \E r \in UserIDs :
    LET resp == matchRandom[r].resp IN
    /\ matchRandom[r].pc = "respond" /\ resp.Matched
    /\ resp.UserID \in UserIDs \ {r}
    /\ resp.RoomID # NoRoom /\ resp.RoomID < uuids
    /\ user_room[r] = resp.RoomID /\ user_room[resp.UserID] = resp.RoomID
    /\ r \notin available_users /\ resp.UserID \in available_users

\* the ids that are assigned the room
AssignedTo(room) == {u \in RegistryIDs : user_room[u] = room}

\* C29 as stated: no room id is the room assignment of more than two user ids
C29_Original ==
  \A room \in 1..uuids : Cardinality(AssignedTo(room)) <= 2

\* a tick pairs its two candidates: both leave the availability set, nobody
\* else does, and the one room it made is assigned to the two of them
TickPairs ==
  /\ sweep.pc = "set2"
  /\ sweep.user1 # sweep.user2
  /\ {sweep.user1, sweep.user2} \subseteq sweep.before[1]
  /\ available_users' = sweep.before[1] \ {sweep.user1, sweep.user2}
  /\ sweep.roomID = uuids
  /\ {u \in RegistryIDs : user_room'[u] = sweep.roomID} = {sweep.user1, sweep.user2}
  /\ \A u \in RegistryIDs \ {sweep.user1, sweep.user2} : user_room'[u] = sweep.before[2][u]

\* C38: with a fair ticker, registry operations that succeed and no other
\* operation on the registry while the ticks go on, a set of two or more
\* available ids is paired off until at most one id is left, and every tick
\* that finds two ids makes one room, for the two of them
C38_SweepPairsAll ==
  /\ (Cardinality(available_users) >= 2) ~> [](Cardinality(available_users) <= 1)
  /\ [][TickEnds => TickPairs]_vars
  /\ [][uuids' # uuids => (sweep.pc = "check2" /\ uuids' = uuids + 1)]_vars

\* two ticks have paired four available ids, two rooms of two exist and at
\* most one id is available
C38_Witness ==
  /\ sweep.pc = "idle"
  /\ Cardinality(available_users) <= 1
  /\ uuids = 2
  /\ \A room \in 1..2 : Cardinality(AssignedTo(room)) = 2
====
